---- MODULE Spec2Model ----
(***************************************************************************)
(* A model of the ShaderManager sampling core: the placeholder-shader      *)
(* cache of ShaderAssigner (src/core/shader_assigner.py), the UDIM pixel   *)
(* sampler and the batch sampling pass of UDIMSampler                      *)
(* (src/source/core/udim_sampler.py), and the JSON sample document that    *)
(* connects them.                                                          *)
(*                                                                         *)
(* The module holds several specifications over one set of variables.     *)
(* Each specification drives one part of the program and leaves the        *)
(* variables of the other parts at their initial values:                   *)
(*   SpecCache   ShaderAssigner.get_or_create_shader_for_color             *)
(*   SpecSample  UDIMSampler.sample_uv_colors_from_udim                    *)
(*   Spec        UDIMSampler.sample_and_save_all_meshes, and the read of   *)
(*               the document it writes                                    *)
(*   SpecDominant  UDIMSampler.get_dominant_color                          *)
(*   SpecAssign  what runs after a pass: process_json_and_assign_shaders,  *)
(*               re_assigner_old (src/core/shader_re_assigner.py),         *)
(*               ProcessAndSampleMissingData, the selected-colour sampler  *)
(*               and sample_using_dominant_color                           *)
(***************************************************************************)
EXTENDS Integers, Sequences, FiniteSets, TLC

VARIABLES
    shader_cache,    \* ShaderAssigner.shader_cache, in the dict's iteration order
    materials,       \* the placeholder shading groups created in the scene
    req,             \* the arguments of the last get_or_create_shader_for_color call
    ret,             \* what that call returned
    disk,            \* the texture files: path -> file
    load_truncated,  \* PIL's ImageFile.LOAD_TRUNCATED_IMAGES, a process-wide flag
    failed_textures, \* UDIMSampler.failed_textures
    scene,           \* the mesh shapes of the scene, in cmds.ls order
    call,            \* the last sample_uv_colors_from_udim call and its outcome
    pc,              \* where the batch pass stands
    pass,            \* the locals of sample_and_save_all_meshes
    files,           \* the output folder: the sample and the legacy document
    loaded,          \* what load_json_data read back from the sample document
    inserted,        \* the keys of shader_cache in the order they were first inserted
    log,             \* the messages printed so far (print, cmds.warning, cmds.error)
    job,             \* the assignment or restore that is running, and its locals
    shaders          \* the scene's own materials: name -> whether a shading group is connected

cacheVars == <<shader_cache, materials, req, ret, inserted>>
samplerVars == <<disk, load_truncated, failed_textures, scene, call>>
passVars == <<pc, pass, files, loaded>>
assignVars == <<job, shaders>>

vars == <<shader_cache, materials, req, ret, inserted,
          disk, load_truncated, failed_textures, scene, call,
          pc, pass, files, loaded, log, job, shaders>>

\* Python values that may be absent or of several types are tagged, so that
\* any two of them can be compared: None, an int, a float (an exact fraction
\* n/d, d > 0), a str, a list, a tuple and a dict (a record of its items).
None == [none |-> TRUE]
PyInt(n) == [int |-> n]
PyFloat(n, d) == [num |-> n, den |-> d]
PyStr(s) == [str |-> s]
PyList(s) == [list |-> s]
PyTuple(s) == [tuple |-> s]
PyDict(r) == [dict |-> r]

(***************************************************************************)
(* ShaderAssigner: the shader cache.                                       *)
(***************************************************************************)

\* tolerance=2, the default of colors_match and get_or_create_shader_for_color
\* and the value every caller passes.
DefaultTol == 2

\* How many materials one assigner may create before the model stops it.
MaxCreate == 3

\* The colours requested: the spec's example (100,100,100), neighbours at
\* distance 1, 2 and 3 on single channels, a chain 100 - 102 - 104, and a far one.
Colors ==
    { <<100, 100, 100>>, <<101, 99, 100>>, <<110, 100, 100>>,
      <<102, 100, 100>>, <<104, 100, 100>>, <<100, 100, 103>> }

Tolerances == {-1, 0, DefaultTol}

Abs(x) == IF x < 0 THEN -x ELSE x

\* colors_match with the comparison made exclusive: a boundary slip.
colors_match_exclusive(color1, color2, tolerance) ==
    \A i \in 1..3 : ~(Abs(color1[i] - color2[i]) >= tolerance)

\* colors_match answering False for every pair of colours.
colors_match_never(color1, color2, tolerance) == FALSE

\* colors_match(color1, color2, tolerance): False as soon as one channel
\* differs by more than tolerance.
colors_match(color1, color2, tolerance) ==
    \A i \in 1..3 : ~(Abs(color1[i] - color2[i]) > tolerance)

\* The loop of get_or_create_shader_for_color over shader_cache.items():
\* the index of the first entry, in iteration order, that matches; 0 if none.
RECURSIVE first_match(_, _, _, _)
first_match(cache, color_rgb, tolerance, i) ==
    IF i > Len(cache) THEN 0
    ELSE IF colors_match(color_rgb, cache[i].color, tolerance) THEN i
    ELSE first_match(cache, color_rgb, tolerance, i + 1)

\* cmds.shadingNode(..., name="shader_RRR_GGG_BBB") and the shading group
\* named after it: the node is named from the exact colour, and the host
\* makes the name unique when the scene already holds that name (n counts
\* the nodes of that name that existed).
create_lambert_shader(mats, color_rgb) ==
    [name |-> color_rgb,
     n    |-> Cardinality({m \in mats : m.name = color_rgb})]

HasKey(cache, key) == \E i \in 1..Len(cache) : cache[i].color = key

InsertAt(s, i, e) == SubSeq(s, 1, i - 1) \o <<e>> \o SubSeq(s, i, Len(s))

\* The assignment emptying the cache of its other entries.
dict_set_evicting(cache, key, sg) == {<<[color |-> key, sg |-> sg]>>}

\* self.shader_cache[tuple(color_rgb)] = sg.  An existing key keeps its slot
\* and takes the new value.  A new key lands in the slot its hash selects:
\* the program is Python 2.7 (reload, long), whose dict iterates in slot
\* order, so the new entry may come anywhere among the old ones, whose
\* relative order is kept while the table is not resized (fewer than six
\* entries).
dict_set(cache, key, sg) ==
    IF HasKey(cache, key)
    THEN {[i \in 1..Len(cache) |->
            IF cache[i].color = key THEN [color |-> key, sg |-> sg] ELSE cache[i]]}
    ELSE {InsertAt(cache, i, [color |-> key, sg |-> sg]) : i \in 1..(Len(cache) + 1)}

\* get_or_create_shader_for_color(color_rgb, tolerance) on a cache, in a
\* scene holding the placeholder materials mats: the outcomes it may have,
\* each the cache, the materials and the insertion history it leaves and the
\* shading group it returns.
shader_for_color(cache, mats, ins, color_rgb, tolerance) ==
    LET i == first_match(cache, color_rgb, tolerance, 1) IN
    IF i # 0
    THEN {[cache |-> cache, materials |-> mats, inserted |-> ins,
           sg |-> cache[i].sg]}
    ELSE IF Cardinality(mats) >= MaxCreate THEN {}
    ELSE LET sg == create_lambert_shader(mats, color_rgb) IN
         {[cache |-> c, materials |-> mats \cup {sg},
           inserted |-> IF HasKey(cache, color_rgb) THEN ins
                        ELSE Append(ins, color_rgb),
           sg |-> sg] : c \in dict_set(cache, color_rgb, sg)}

\* get_or_create_shader_for_color(color_rgb, tolerance) on the assigner.
get_or_create_shader_for_color(color_rgb, tolerance) ==
    \E o \in shader_for_color(shader_cache, materials, inserted, color_rgb,
                              tolerance) :
        /\ req' = [color |-> color_rgb, tolerance |-> tolerance]
        /\ ret' = o.sg
        /\ shader_cache' = o.cache
        /\ materials' = o.materials
        /\ inserted' = o.inserted

GetOrCreate ==
    \E c \in Colors, t \in Tolerances : get_or_create_shader_for_color(c, t)

InitCache ==
    /\ shader_cache = <<>>
    /\ materials = {}
    /\ req = None
    /\ ret = None
    /\ inserted = << >>

NextCache == GetOrCreate /\ UNCHANGED <<samplerVars, passVars, log, assignVars>>

(***************************************************************************)
(* Texture paths and the files on disk.                                    *)
(***************************************************************************)

\* A path is a sequence of pieces: literal text, or the decimal text of a
\* number (str(udim_number)).
Lit(s) == [lit |-> s]
Num(n) == [digits |-> n]
UDIM_MARK == Lit("<UDIM>")
F_MARK == Lit("<f>")

\* str.replace(old, new) on a path, piece by piece.
str_replace(path, old, new) ==
    [i \in 1..Len(path) |-> IF path[i] = old THEN new ELSE path[i]]

\* str.lower() of a file extension.
lower(s) ==
    CASE s = ".JPG" -> ".jpg"
      [] s = ".JPEG" -> ".jpeg"
      [] OTHER -> s

\* The extension test answering yes for every path.
is_jpeg_family_any(path) == TRUE

\* texture_path.lower().endswith(('.jpg', '.jpeg', '.jfif'))
is_jpeg_family(path) ==
    /\ Len(path) > 0
    /\ "lit" \in DOMAIN path[Len(path)]
    /\ lower(path[Len(path)].lit) \in {".jpg", ".jpeg", ".jfif"}

\* The templates handed to sample_uv_colors_from_udim.
TplOk == <<Lit("ok."), UDIM_MARK, Lit(".jpg")>>
TplMix == <<Lit("mix."), UDIM_MARK, Lit(".JPG")>>
TplPng == <<Lit("png."), UDIM_MARK, Lit(".png")>>
TplGone == <<Lit("gone."), UDIM_MARK, Lit(".jpg")>>
TplPlain == <<Lit("plain"), Lit(".jpg")>>
TplF == <<Lit("f."), F_MARK, Lit(".jpg")>>
Templates == {TplOk, TplMix, TplPng, TplGone, TplPlain, TplF}

\* A file on disk: kind "ok" decodes; "truncated" decodes only when PIL
\* tolerates truncation; "garbage" never decodes.  enc tells the original
\* bytes from a re-encoded copy.
Image(w, h, id) == [w |-> w, h |-> h, id |-> id]
\* An image all of whose pixels have the colour c.
Solid(w, h, c) == [w |-> w, h |-> h, solid |-> c]

\* The RGB value of the pixel (x, y) of a decoded image.
pixel_at(img, x, y) ==
    IF "solid" \in DOMAIN img THEN img.solid
    ELSE <<(x + img.id) % 256, y % 256, img.id>>
File(kind, img) == [kind |-> kind, img |-> img, enc |-> "original"]
NoFile == [kind |-> "missing"]

Tiles == {1000, 1001, 1012, 1013}

\* The texture files the scene's templates point at.
TileImage(tile) ==
    CASE tile = 1001 -> Image(100, 50, 1)
      [] tile = 1012 -> Image(1, 1, 2)
      [] tile = 1013 -> Image(4, 3, 3)
      [] OTHER -> Image(2, 2, 4)

TileFile(tpl, tile) ==
    CASE tpl = TplOk -> File("ok", TileImage(tile))
      [] tpl = TplGone -> NoFile
      [] tpl = TplPlain -> File("ok", Image(8, 8, 5))
      [] tpl = TplF ->
            CASE tile = 1001 -> File("ok", Solid(2, 2, <<10, 20, 30>>))
              [] tile = 1013 -> File("garbage", TileImage(tile))
              [] OTHER -> NoFile
      [] tpl = TplPng ->
            IF tile = 1001 THEN File("truncated", TileImage(tile))
            ELSE File("ok", TileImage(tile))
      [] tpl = TplMix ->
            CASE tile = 1001 -> File("truncated", TileImage(tile))
              [] tile = 1012 -> NoFile
              [] tile = 1013 -> File("garbage", TileImage(tile))
              [] OTHER -> File("ok", TileImage(tile))

\* udim_template.replace("<UDIM>", str(n)).replace("<f>", str(n))
resolve_tile_path(udim_template, udim_number) ==
    str_replace(str_replace(udim_template, UDIM_MARK, Num(udim_number)),
                F_MARK, Num(udim_number))

AllPaths == {resolve_tile_path(tpl, n) : tpl \in Templates, n \in Tiles}

Disk0 ==
    [p \in AllPaths |->
        LET tpl == CHOOSE t \in Templates :
                      \E n \in Tiles : resolve_tile_path(t, n) = p
            n == CHOOSE m \in Tiles : resolve_tile_path(tpl, m) = p
        IN TileFile(tpl, n)]

\* os.path.exists(path)
path_exists(d, path) == path \in DOMAIN d /\ d[path].kind # "missing"

\* Image.open(path).convert("RGB") succeeds: convert decodes the whole file.
can_decode(d, flag, path) ==
    \/ d[path].kind = "ok"
    \/ d[path].kind = "truncated" /\ flag

\* The steps of fix_and_reload_jpeg at which the file system may fail, and
\* "none": Image.open/load, img.save opening the temporary file, img.save
\* writing it, os.remove, os.rename, and the Image.open of the result.
RepairSteps ==
    {"none", "load", "save open", "save write", "remove", "rename", "reopen"}

\* fix_and_reload_jpeg(path) -> [img, disk, flag, log], the file system
\* failing at the step fails_at.  LOAD_TRUNCATED_IMAGES is switched on for the
\* rest of the process; a file that then loads is re-encoded to
\* path + "_fixed.jpg", the original removed, the copy renamed onto it and
\* reopened.  Any exception is printed and gives None, the files staying as
\* the steps before it left them.
fix_and_reload_jpeg_at(d, path, fails_at) ==
    LET temp_path == Append(path, Lit("_fixed.jpg"))
        fixed == [kind |-> "ok", img |-> d[path].img, enc |-> "fixed"]
        with_temp(f) == [p \in DOMAIN d \cup {temp_path} |->
                            IF p = temp_path THEN f ELSE d[p]]
        failed(disk_left) == [img |-> None, disk |-> disk_left, flag |-> TRUE,
                              log |-> <<"Failed to fix image">>]
    IN
    IF d[path].kind \notin {"ok", "truncated"} \/ fails_at = "load"
         THEN failed(d)
    ELSE IF fails_at = "save open" THEN failed(d)
    ELSE IF fails_at = "save write"
         THEN failed(with_temp([kind |-> "truncated", img |-> d[path].img,
                                enc |-> "fixed"]))
    ELSE IF fails_at = "remove" THEN failed(with_temp(fixed))
    ELSE IF fails_at = "rename"
         THEN failed([with_temp(fixed) EXCEPT ![path] = NoFile])
    ELSE IF fails_at = "reopen"
         THEN failed([d EXCEPT ![path] = fixed])
    ELSE [img  |-> d[path].img,
          disk |-> [d EXCEPT ![path] = fixed],
          flag |-> TRUE,
          log  |-> << >>]

\* fix_and_reload_jpeg(path) on a file system that does not fail.
fix_and_reload_jpeg(d, path) == fix_and_reload_jpeg_at(d, path, "none")

(***************************************************************************)
(* UDIMSampler.sample_uv_colors_from_udim                                  *)
(***************************************************************************)

\* How many UV components a shape of the model has at most.
MaxUVs == 2

Frac(n, d) == PyFloat(n, d)
UV(un, ud, vn, vd) == PyList(<<Frac(un, ud), Frac(vn, vd)>>)

\* What cmds.polyEditUV(uv, query=True) answers for the components of the
\* model: a tile corner, a tile interior, V on a tile boundary, the spec's
\* (2.3, 1.7), a negative U, and a component without coordinates.
UVCoords ==
    { UV(0, 1, 0, 1), UV(1, 2, 1, 4), UV(23, 10, 17, 10), UV(3, 2, 1, 1),
      UV(-1, 4, 1, 2), None }

UVLists == UNION {[1..n -> UVCoords] : n \in 1..MaxUVs}

\* math.floor of a fraction with a positive denominator.
floor(x) == x.num \div x.den

\* int(n/d) for d > 0: truncation toward zero.
int_of(n, d) == IF n >= 0 THEN n \div d ELSE -((-n) \div d)

min(a, b) == IF a < b THEN a ELSE b

\* udim_number = 1001 + tile_u + tile_v * 10 written with the row and the
\* column swapped.
udim_number_swapped(tile_u, tile_v) == 1001 + tile_v + tile_u * 10

\* udim_number = 1001 + tile_u + tile_v * 10
udim_number_of(tile_u, tile_v) == 1001 + tile_u + tile_v * 10

\* px = min(int((u - tile_u) * width), width - 1)
pixel_x(u, tile_u, width) ==
    min(int_of((u.num - tile_u * u.den) * width, u.den), width - 1)

\* py without the min(): the raw product.
pixel_y_unclamped(v, tile_v, height) ==
    int_of((v.den - (v.num - tile_v * v.den)) * height, v.den)

\* py = min(int((1.0 - (v - tile_v)) * height), height - 1)
pixel_y(v, tile_v, height) ==
    min(int_of((v.den - (v.num - tile_v * v.den)) * height, v.den), height - 1)

\* img.getpixel((px, py)) inside try/except: the colour, or None when the
\* read raises (a position outside the image).
getpixel(img, px, py) ==
    IF px >= 0 /\ px < img.w /\ py >= 0 /\ py < img.h
    THEN LET c == pixel_at(img, px, py)
         IN PyTuple(<<PyInt(c[1]), PyInt(c[2]), PyInt(c[3])>>)
    ELSE None

\* The sample dictionary of one UV coordinate.
Sample(uv, tile, pixel, color) ==
    PyDict([uv |-> uv, tile |-> tile, pixel |-> pixel, color |-> color])

\* image_cache[texture_path] = img
cache_put(image_cache, path, img) ==
    [p \in DOMAIN image_cache \cup {path} |->
        IF p = path THEN img ELSE image_cache[p]]

\* The missing-file branch with the failed_textures.add left out.
on_missing_silent(st, texture_path) ==
    [st EXCEPT !.image_cache = cache_put(st.image_cache, texture_path, None)]

\* if not os.path.exists(texture_path): record, cache "no image", continue
on_missing(st, texture_path) ==
    [st EXCEPT !.failed = st.failed \cup {texture_path},
               !.image_cache = cache_put(st.image_cache, texture_path, None)]

\* The body of the for loop of sample_uv_colors_from_udim for one component
\* whose coordinates are coords; st holds image_cache, results, the sampler's
\* failed_textures, the disk and the PIL flag.
sample_one(st, coords, udim_template) ==
    IF coords = None THEN st
    ELSE
    LET u == coords.list[1]
        v == coords.list[2]
        tile_u == floor(u)
        tile_v == floor(v)
        udim_number == udim_number_of(tile_u, tile_v)
        texture_path == resolve_tile_path(udim_template, udim_number)
    IN
    IF texture_path \notin DOMAIN st.image_cache
         /\ ~path_exists(st.disk, texture_path)
    THEN on_missing(st, texture_path)
    ELSE IF texture_path \notin DOMAIN st.image_cache
         /\ ~can_decode(st.disk, st.flag, texture_path)
    THEN \* except: repair a JPEG, cache what came of it, continue
         IF is_jpeg_family(texture_path)
         THEN LET fx == fix_and_reload_jpeg(st.disk, texture_path) IN
              [st EXCEPT !.image_cache = cache_put(st.image_cache, texture_path, fx.img),
                         !.disk = fx.disk,
                         !.flag = fx.flag,
                         !.log = st.log \o fx.log,
                         !.opened = Append(st.opened, texture_path),
                         !.repaired = Append(st.repaired, texture_path)]
         ELSE [st EXCEPT !.image_cache = cache_put(st.image_cache, texture_path, None),
                         !.opened = Append(st.opened, texture_path)]
    ELSE
    LET fresh == texture_path \notin DOMAIN st.image_cache
        cache1 == IF fresh
                  THEN cache_put(st.image_cache, texture_path, st.disk[texture_path].img)
                  ELSE st.image_cache
        img == cache1[texture_path]
    IN
    IF img = None
    THEN st
    ELSE LET px == pixel_x(u, tile_u, img.w)
             py == pixel_y(v, tile_v, img.h)
             color == getpixel(img, px, py)
         IN [st EXCEPT
               !.image_cache = cache1,
               !.opened = IF fresh THEN Append(st.opened, texture_path) ELSE st.opened,
               !.results = Append(st.results,
                   Sample(PyList(<<u, v>>), PyInt(udim_number),
                          PyList(<<PyInt(px), PyInt(py)>>), color))]

\* The for loop over uv_components; the host query polyEditUV of component
\* fail_at raises (fail_at = 0: no query raises).
RECURSIVE sample_loop(_, _, _, _, _)
sample_loop(st, coords_list, udim_template, i, fail_at) ==
    IF i > Len(coords_list) THEN st
    ELSE IF i = fail_at THEN [st EXCEPT !.raised = TRUE]
    ELSE sample_loop(sample_one(st, coords_list[i], udim_template),
                     coords_list, udim_template, i + 1, fail_at)

\* The finally clause left out: the current UV set stays the one sampled.
restore_uv_set_skipped(original_uv_set, during) == during

\* finally: cmds.polyUVSet(shape_node, currentUVSet=True, uvSet=original_uv_set)
restore_uv_set(original_uv_set, during) == original_uv_set

\* sample_uv_colors_from_udim(shape_node, uv_set_name, udim_template) as a
\* function of the shape, the disk, the flag and the failed set: what it
\* returns (or that it raised) and what it leaves behind.  The current UV set
\* is switched to uv_set_name for the loop and switched back in the finally.
sample_uv_colors_from_udim(shape, uv_set_name, udim_template, d, flag, failed, fail_at) ==
    LET st0 == [image_cache |-> << >>, results |-> << >>, failed |-> failed,
                disk |-> d, flag |-> flag, opened |-> << >>, repaired |-> << >>,
                raised |-> FALSE, log |-> << >>]
        known == \E k \in 1..Len(shape.uv_sets) : shape.uv_sets[k] = uv_set_name
        st == IF known
              THEN sample_loop(st0, shape.uvs, udim_template, 1, fail_at)
              ELSE st0
        original_uv_set == shape.current
        during == IF known THEN uv_set_name ELSE shape.current
    IN [status  |-> IF st.raised THEN "raised" ELSE "returned",
        results |-> IF st.raised THEN << >> ELSE st.results,
        failed  |-> st.failed,
        disk    |-> st.disk,
        flag    |-> st.flag,
        opened  |-> st.opened,
        repaired |-> st.repaired,
        log     |-> st.log,
        during  |-> during,
        current |-> restore_uv_set(original_uv_set, during)]

\* A shape of the scene as the sampler sees it through the host's queries.
Shape(name, shader, uv_sets, current, uvs) ==
    [name |-> name, shader |-> shader, uv_sets |-> uv_sets,
     current |-> current, uvs |-> uvs]

\* One call of sample_uv_colors_from_udim on the first shape of the scene.
SampleCall ==
    /\ call.status = "idle"
    /\ \E uv_set_name \in {"map1", "uvSet2", "absent"},
          tpl \in Templates,
          fail_at \in {0, Len(scene[1].uvs)} :
          LET r == sample_uv_colors_from_udim(scene[1], uv_set_name, tpl, disk,
                                              load_truncated, failed_textures, fail_at)
          IN /\ call' = [status |-> r.status, results |-> r.results,
                         uv_set_name |-> uv_set_name, udim_template |-> tpl,
                         opened |-> r.opened, repaired |-> r.repaired,
                         during |-> r.during, before |-> scene[1].current,
                         fail_at |-> fail_at, disk_before |-> disk,
                         flag_before |-> load_truncated]
             /\ disk' = r.disk
             /\ load_truncated' = r.flag
             /\ failed_textures' = r.failed
             /\ scene' = [scene EXCEPT ![1].current = r.current]
             /\ log' = log \o r.log
    /\ UNCHANGED <<cacheVars, passVars, assignVars>>

(***************************************************************************)
(* The other samplers of the batch pass.                                   *)
(***************************************************************************)

\* The list comprehension of sample_flat_color and the result loop of
\* sample_using_dominant_color: one sample per component that has
\* coordinates, with the given tile and colour and no pixel.
RECURSIVE samples_of_components(_, _, _, _)
samples_of_components(coords_list, i, tile, color) ==
    IF i > Len(coords_list) THEN << >>
    ELSE IF coords_list[i] = None
         THEN samples_of_components(coords_list, i + 1, tile, color)
         ELSE <<Sample(coords_list[i], tile, None, color)>>
              \o samples_of_components(coords_list, i + 1, tile, color)

\* sample_flat_color(shape_node, uv_set_name, rgb_color)
sample_flat_color(shape, rgb_color) ==
    samples_of_components(shape.uvs, 1, None, rgb_color)

\* What os.listdir(folder) holds that re.match accepts: the existing files
\* named like the template with four digits for <f>.
matching_f_tiles(d, f_template) ==
    {n \in Tiles : /\ n >= 1000 /\ n <= 9999
                   /\ path_exists(d, str_replace(f_template, F_MARK, Num(n)))}

\* The filters img.resize((1, 1)) may use: the default is NEAREST up to
\* Pillow 6, the last release for Python 2.7, and BICUBIC since Pillow 7.
Resamples == {"nearest", "average"}

\* The sum of one channel over the pixels k, k + 1, ... of an image, the
\* pixels counted row by row.
RECURSIVE channel_sum(_, _, _)
channel_sum(img, ch, k) ==
    IF k >= img.w * img.h THEN 0
    ELSE pixel_at(img, k % img.w, k \div img.w)[ch] + channel_sum(img, ch, k + 1)

\* img.resize((1, 1)).getpixel((0, 0)).  NEAREST takes the pixel under the
\* centre of the image.  BICUBIC over the whole image is a weighted mean of
\* all its pixels, the weights positive and normalised; it is modelled by the
\* plain mean, rounded to the nearest integer.
resize_to_one(img, resample) ==
    IF resample = "nearest"
    THEN pixel_at(img, img.w \div 2, img.h \div 2)
    ELSE [ch \in 1..3 |->
            (2 * channel_sum(img, ch, 0) + img.w * img.h) \div (2 * img.w * img.h)]

\* get_dominant_color reading the channels in the order blue, green, red.
get_dominant_color_bgr(d, flag, image_path, resample) ==
    IF path_exists(d, image_path) /\ can_decode(d, flag, image_path)
    THEN LET c == resize_to_one(d[image_path].img, resample)
         IN PyTuple(<<PyInt(c[3]), PyInt(c[2]), PyInt(c[1])>>)
    ELSE None

\* get_dominant_color answering black for an image it cannot read.
get_dominant_color_black_on_failure(d, flag, image_path, resample) ==
    IF path_exists(d, image_path) /\ can_decode(d, flag, image_path)
    THEN LET c == resize_to_one(d[image_path].img, resample)
         IN PyTuple(<<PyInt(c[1]), PyInt(c[2]), PyInt(c[3])>>)
    ELSE PyTuple(<<PyInt(0), PyInt(0), PyInt(0)>>)

\* get_dominant_color(image_path): the image resized to one pixel, or None,
\* with a message, when opening or decoding raises.
get_dominant_color(d, flag, image_path, resample) ==
    IF path_exists(d, image_path) /\ can_decode(d, flag, image_path)
    THEN LET c == resize_to_one(d[image_path].img, resample)
         IN PyTuple(<<PyInt(c[1]), PyInt(c[2]), PyInt(c[3])>>)
    ELSE None

\* sample_using_dominant_color(shape_node, uv_set_name, f_template), given
\* the tile number of the file the directory scan met first (0: none matched).
sample_using_dominant_color(shape, f_template, d, flag, first_tile, resample) ==
    IF first_tile = 0 THEN << >>
    ELSE LET texture_path == str_replace(f_template, F_MARK, Num(first_tile))
             dominant_color == get_dominant_color(d, flag, texture_path, resample)
         IN IF dominant_color = None THEN << >>
            ELSE samples_of_components(shape.uvs, 1, PyInt(first_tile),
                                       dominant_color)

\* What sample_using_dominant_color and get_dominant_color print.
dominant_color_messages(f_template, d, flag, first_tile, resample) ==
    IF first_tile = 0 THEN <<"No matching <f> tile found">>
    ELSE IF get_dominant_color(d, flag, str_replace(f_template, F_MARK,
                                                    Num(first_tile)), resample) = None
    THEN <<"Failed to get dominant color", "Failed to extract dominant color">>
    ELSE << >>

\* The files sample_using_dominant_color opens.
dominant_color_opens(f_template, first_tile) ==
    IF first_tile = 0 THEN << >>
    ELSE <<str_replace(f_template, F_MARK, Num(first_tile))>>

\* convert_to_udim_template(texture_path): <f> becomes <UDIM>; else a run of
\* four digits right before the extension becomes <UDIM>; else unchanged.
convert_to_udim_template(texture_path) ==
    LET n == Len(texture_path) IN
    IF \E i \in 1..n : texture_path[i] = F_MARK
    THEN str_replace(texture_path, F_MARK, UDIM_MARK)
    ELSE IF /\ n >= 2
            /\ "digits" \in DOMAIN texture_path[n - 1]
            /\ texture_path[n - 1].digits >= 1000
            /\ texture_path[n - 1].digits <= 9999
         THEN [texture_path EXCEPT ![n - 1] = UDIM_MARK]
         ELSE texture_path

(***************************************************************************)
(* The JSON documents: json.dump and json.load.                            *)
(***************************************************************************)

\* The tokens of a JSON text.
TPunct(c) == [tok |-> "punct", c |-> c]
TNull == [tok |-> "null"]
TInt(n) == [tok |-> "int", digits |-> n]
TFloat(n, d) == [tok |-> "float", num |-> n, den |-> d]
TString(x) == [tok |-> "string", chars |-> x]

\* The keys of a dict in the order the encoder visits them.
RECURSIVE keys_in_order(_)
keys_in_order(ks) ==
    IF ks = {} THEN << >>
    ELSE LET k == CHOOSE x \in ks : TRUE
         IN <<k>> \o keys_in_order(ks \ {k})

\* json.dump(value): the text as tokens.  A tuple is written as an array
\* like a list, None as null, a float by its repr.
\* The encoder writing None by its str, as a string, instead of null.
json_encode_scalar_none_as_text(v) ==
    IF "none" \in DOMAIN v THEN <<TString(<<"None">>)>>
    ELSE IF "int" \in DOMAIN v THEN <<TInt(v.int)>>
    ELSE IF "num" \in DOMAIN v THEN <<TFloat(v.num, v.den)>>
    ELSE <<TString(v.str)>>

\* The text of a value that is no container.
json_encode_scalar(v) ==
    IF "none" \in DOMAIN v THEN <<TNull>>
    ELSE IF "int" \in DOMAIN v THEN <<TInt(v.int)>>
    ELSE IF "num" \in DOMAIN v THEN <<TFloat(v.num, v.den)>>
    ELSE <<TString(v.str)>>

RECURSIVE json_encode(_), json_encode_items(_, _), json_encode_members(_, _, _)
json_encode(v) ==
    IF "list" \in DOMAIN v
         THEN <<TPunct("[")>> \o json_encode_items(v.list, 1) \o <<TPunct("]")>>
    ELSE IF "tuple" \in DOMAIN v
         THEN <<TPunct("[")>> \o json_encode_items(v.tuple, 1) \o <<TPunct("]")>>
    ELSE IF "dict" \in DOMAIN v
         THEN <<TPunct("{")>>
         \o json_encode_members(v.dict, keys_in_order(DOMAIN v.dict), 1)
         \o <<TPunct("}")>>
    ELSE json_encode_scalar(v)

json_encode_items(items, i) ==
    IF i > Len(items) THEN << >>
    ELSE json_encode(items[i])
         \o (IF i < Len(items) THEN <<TPunct(",")>> ELSE << >>)
         \o json_encode_items(items, i + 1)

json_encode_members(d, keys, i) ==
    IF i > Len(keys) THEN << >>
    ELSE <<TString(keys[i]), TPunct(":")>> \o json_encode(d[keys[i]])
         \o (IF i < Len(keys) THEN <<TPunct(",")>> ELSE << >>)
         \o json_encode_members(d, keys, i + 1)

\* A parse that failed.
ParseError == [error |-> TRUE]

IsTok(toks, i, t) == i <= Len(toks) /\ toks[i] = t

\* json.load: a recursive-descent parse of the tokens from position i, giving
\* the value and the position after it, or ParseError.
RECURSIVE json_parse(_, _), json_parse_items(_, _, _), json_parse_members(_, _, _)
json_parse(toks, i) ==
    IF i > Len(toks) THEN ParseError
    ELSE LET t == toks[i] IN
         IF t.tok = "null" THEN [v |-> None, next |-> i + 1]
         ELSE IF t.tok = "int" THEN [v |-> PyInt(t.digits), next |-> i + 1]
         ELSE IF t.tok = "float" THEN [v |-> PyFloat(t.num, t.den), next |-> i + 1]
         ELSE IF t.tok = "string" THEN [v |-> PyStr(t.chars), next |-> i + 1]
         ELSE IF t = TPunct("[")
              THEN IF IsTok(toks, i + 1, TPunct("]"))
                   THEN [v |-> PyList(<< >>), next |-> i + 2]
                   ELSE json_parse_items(toks, i + 1, << >>)
         ELSE IF t = TPunct("{")
              THEN IF IsTok(toks, i + 1, TPunct("}"))
                   THEN [v |-> PyDict(<< >>), next |-> i + 2]
                   ELSE json_parse_members(toks, i + 1, << >>)
         ELSE ParseError

json_parse_items(toks, i, acc) ==
    LET r == json_parse(toks, i) IN
    IF r = ParseError THEN ParseError
    ELSE IF IsTok(toks, r.next, TPunct(","))
         THEN json_parse_items(toks, r.next + 1, Append(acc, r.v))
    ELSE IF IsTok(toks, r.next, TPunct("]"))
         THEN [v |-> PyList(Append(acc, r.v)), next |-> r.next + 1]
    ELSE ParseError

json_parse_members(toks, i, acc) ==
    IF ~(i + 1 <= Len(toks) /\ toks[i].tok = "string" /\ toks[i + 1] = TPunct(":"))
    THEN ParseError
    ELSE LET r == json_parse(toks, i + 2) IN
         IF r = ParseError THEN ParseError
         ELSE LET acc1 == (toks[i].chars :> r.v) @@ acc IN
              IF IsTok(toks, r.next, TPunct(","))
              THEN json_parse_members(toks, r.next + 1, acc1)
              ELSE IF IsTok(toks, r.next, TPunct("}"))
              THEN [v |-> PyDict(acc1), next |-> r.next + 1]
              ELSE ParseError

\* json.load(f): the value of the whole text; a text that does not parse to
\* its end raises.
json_load(toks) ==
    LET r == json_parse(toks, 1) IN
    IF r # ParseError /\ r.next = Len(toks) + 1 THEN r.v ELSE ParseError

\* A file of the output folder: absent, or the tokens written so far.
Absent == [absent |-> TRUE]
Written(toks) == [text |-> toks]

\* ShaderAssigner.load_json_data(json_path): None when the file is missing
\* or does not parse.
load_json_data(f) ==
    IF f = Absent THEN None
    ELSE LET data == json_load(f.text)
         IN IF data = ParseError THEN None ELSE data

\* What load_json_data prints.
load_json_message(f) ==
    IF f = Absent THEN "JSON file not found:"
    ELSE IF json_load(f.text) = ParseError THEN "Failed to load JSON"
    ELSE "Loaded JSON data from:"

(***************************************************************************)
(* The scene of the batch pass.                                            *)
(***************************************************************************)

\* How many mesh shapes the scene of the model holds at most.
MaxShapes == 2

\* sample_count=5, the default and what the window passes.
DefaultSampleCount == 5

\* Names are kept as the list short_name.split(":") gives: the namespace (a
\* string, as its characters) and then the node name; a node outside any
\* namespace has the node name alone.
NsAB == <<"a", "b">>
NsA == <<"a">>
NsCD == <<"c", "d">>
\* cmds.referenceQuery(reference_node, namespace=True) of the asset "ab"
FilterAB == PyStr(<<":", "a", "b">>)

ShortName(ns, i) == IF ns = << >> THEN <<[node |-> i]>> ELSE <<ns, [node |-> i]>>

FileShader(name, path) ==
    [name |-> name, info |-> [type |-> "file", value |-> path]]
ColorShader(name, r, g, b) ==
    [name |-> name,
     info |-> [type |-> "color", value |-> PyList(<<PyInt(r), PyInt(g), PyInt(b)>>)]]

ShapeKinds == {"ok", "mix", "flat_cd", "flat_root", "flat_a", "nomat", "noinfo", "f"}

\* The i-th shape of the scene, of a given kind: what the host answers about it.
MakeShape(kind, i) ==
    CASE kind = "ok" ->
            Shape(ShortName(NsAB, i),
                  FileShader("matOk", <<Lit("ok."), Num(1001), Lit(".jpg")>>),
                  <<"map1", "uvSet2">>, "map1",
                  <<UV(1, 2, 1, 4), UV(23, 10, 17, 10)>>)
      [] kind = "mix" ->
            Shape(ShortName(NsAB, i),
                  FileShader("matMix", <<Lit("mix."), Num(1001), Lit(".JPG")>>),
                  <<"map1">>, "map1",
                  <<UV(0, 1, 0, 1), UV(3, 2, 1, 1)>>)
      [] kind = "f" ->
            Shape(ShortName(NsAB, i), FileShader("matF", TplF),
                  <<"map1">>, "map1", <<UV(1, 2, 1, 4)>>)
      [] kind = "flat_cd" ->
            Shape(ShortName(NsCD, i), ColorShader("matRed", 255, 0, 0),
                  <<"map1">>, "map1", <<UV(1, 2, 1, 4), None>>)
      [] kind = "flat_root" ->
            Shape(ShortName(<< >>, i), ColorShader("matRed", 255, 0, 0),
                  <<"map1">>, "map1", <<UV(1, 2, 1, 4)>>)
      [] kind = "flat_a" ->
            Shape(ShortName(NsA, i), ColorShader("matBlue", 0, 0, 255),
                  <<"map1">>, "map1", <<UV(0, 1, 0, 1)>>)
      [] kind = "plain" ->
            Shape(ShortName(NsAB, i), FileShader("matPlain", TplPlain),
                  <<"map1">>, "map1", <<UV(1, 2, 1, 4)>>)
      [] kind = "nomat" ->
            Shape(ShortName(NsAB, i), None, <<"map1">>, "map1", <<UV(0, 1, 0, 1)>>)
      [] kind = "f_gone" ->
            Shape(ShortName(NsAB, i),
                  FileShader("matFGone", <<Lit("nofile."), F_MARK, Lit(".jpg")>>),
                  <<"map1">>, "map1", <<UV(1, 2, 1, 4)>>)
      [] kind = "nopath" ->
            Shape(ShortName(NsAB, i), FileShader("matNoPath", << >>),
                  <<"map1">>, "map1", <<UV(1, 2, 1, 4)>>)
      [] kind = "nouv" ->
            Shape(ShortName(NsAB, i), ColorShader("matBlue", 0, 0, 255),
                  << >>, "map1", << >>)
      [] kind = "noinfo" ->
            Shape(ShortName(NsAB, i), [name |-> "matBare", info |-> None],
                  <<"map1">>, "map1", <<UV(0, 1, 0, 1)>>)

\* The scenes of the model: up to MaxShapes shapes of different kinds, in
\* any order.
Scenes ==
    {[i \in 1..Len(ks) |-> MakeShape(ks[i], i)] :
        ks \in {k \in UNION {[1..n -> ShapeKinds] : n \in 0..MaxShapes} :
                  \A i, j \in 1..Len(k) : i # j => k[i] # k[j]}}

(***************************************************************************)
(* UDIMSampler.sample_and_save_all_meshes                                  *)
(***************************************************************************)

\* x in y for two strings, each given as its characters.
is_substring(x, y) ==
    \E k \in 0..(Len(y) - Len(x)) :
        \A j \in 1..Len(x) : y[k + j] = x[j]

\* if ":" in short_name: mesh_namespace = short_name.split(":")[0];
\* if namespace and mesh_namespace not in namespace: continue
namespace_skips(short_name, namespace) ==
    /\ Len(short_name) > 1
    /\ namespace # None /\ namespace # PyStr(<< >>)
    /\ ~is_substring(short_name[1], namespace.str)

\* The slice taking every sample whatever the count.
take_all(samples, n) == samples

\* uv_colors[:sample_count]: the first n elements, and for a negative n all
\* but the last -n.
take(samples, n) ==
    IF n >= 0 THEN SubSeq(samples, 1, min(Len(samples), n))
    ELSE SubSeq(samples, 1, Len(samples) + n)

\* The object path written for a shape.
ObjectPath(shape) == PyStr(shape.name)

\* json_data = {"meshes": matched_meshes}
json_data_of(matched_meshes) == PyDict([meshes |-> PyList(matched_meshes)])

SamplePath == "shaderInfo.json"

\* The end of the pass with an exception leaving sample_and_save_all_meshes.
Raise(from) ==
    /\ pc' = "Failed"
    /\ pass' = [pass EXCEPT !.failed_from = from]

\* shapes = self.get_all_mesh_shapes(); if not shapes: return
StartPass ==
    /\ pc = "Idle"
    /\ pc' = IF scene = << >> THEN "Returned" ELSE "Scanning"
    /\ UNCHANGED <<pass, files, loaded, cacheVars, samplerVars, log, assignVars>>

\* The head of the loop with the wasCanceled() test left out.
ScanNextIgnoringCancel ==
    /\ pc = "Scanning"
    /\ IF pass.idx > Len(scene)
       THEN pc' = "Finalizing" /\ UNCHANGED pass
       ELSE IF namespace_skips(scene[pass.idx].name, pass.namespace)
       THEN pc' = "Scanning" /\ pass' = [pass EXCEPT !.idx = @ + 1]
       ELSE pc' = "Resolving" /\ UNCHANGED pass
    /\ UNCHANGED <<files, loaded, cacheVars, samplerVars, log, assignVars>>

\* The head of the loop over shapes: the end of the loop, the cancellation
\* poll, and the namespace filter.
ScanNext ==
    /\ pc = "Scanning"
    /\ IF pass.idx > Len(scene)
       THEN pc' = "Finalizing" /\ UNCHANGED pass
       ELSE IF pass.canceled
       THEN pc' = "Cancelled" /\ UNCHANGED pass
       ELSE IF namespace_skips(scene[pass.idx].name, pass.namespace)
       THEN pc' = "Scanning" /\ pass' = [pass EXCEPT !.idx = @ + 1]
       ELSE pc' = "Resolving" /\ UNCHANGED pass
    /\ UNCHANGED <<files, loaded, cacheVars, samplerVars, log, assignVars>>

\* get_shader_from_shape and get_file_texture_or_color_from_shader: a shape
\* without material, or whose material has neither texture nor colour, is
\* passed over.
Resolve ==
    /\ pc = "Resolving"
    /\ LET shape == scene[pass.idx] IN
       IF shape.shader = None \/ shape.shader.info = None
       THEN pc' = "Scanning" /\ pass' = [pass EXCEPT !.idx = @ + 1]
       ELSE /\ pc' = IF shape.uv_sets = << >> THEN "Recording" ELSE "Sampling"
            /\ pass' = [pass EXCEPT !.uv_i = 1, !.per_uv_samples = << >>]
    /\ UNCHANGED <<files, loaded, cacheVars, samplerVars, log, assignVars>>

\* per_uv_samples.append({"uv_set": uv_set, "samples": uv_colors[:sample_count]})
\* and on to the next UV set, or to recording after the last.
AppendUVSamples(shape, uv_set, uv_colors, opened) ==
    /\ pass' = [pass EXCEPT
          !.opened = @ \o opened,
          !.produced = Append(@, [idx |-> pass.idx, uv_i |-> pass.uv_i,
                                  uv_colors |-> uv_colors]),
          !.per_uv_samples = Append(@,
              PyDict([uv_set |-> PyStr(uv_set),
                      samples |-> PyList(take(uv_colors, pass.sample_count))])),
          !.uv_i = @ + 1]
    /\ pc' = IF pass.uv_i = Len(shape.uv_sets) THEN "Recording" ELSE "Sampling"

\* One turn of the loop over the shape's UV sets: the sampler the texture
\* path selects.  A host query that raises while sampling leaves the whole
\* method.
SampleUVSet ==
    /\ pc = "Sampling"
    /\ LET shape == scene[pass.idx]
           uv_set == shape.uv_sets[pass.uv_i]
           info == shape.shader.info
       IN
       IF info.type = "file"
       THEN LET texture_path == info.value IN
            IF texture_path = << >>
            THEN \* if not texture_path: continue
                 /\ pass' = [pass EXCEPT !.uv_i = @ + 1]
                 /\ pc' = IF pass.uv_i = Len(shape.uv_sets)
                          THEN "Recording" ELSE "Sampling"
                 /\ UNCHANGED <<samplerVars, log>>
            ELSE IF \E i \in 1..Len(texture_path) : texture_path[i] = F_MARK
            THEN \E first_tile \in matching_f_tiles(disk, texture_path) \cup {0},
                    resample \in Resamples,
                    host_raises \in BOOLEAN :
                    LET uv_colors == sample_using_dominant_color(shape, texture_path,
                                         disk, load_truncated, first_tile, resample)
                    IN
                    /\ (first_tile = 0) <=> (matching_f_tiles(disk, texture_path) = {})
                    /\ IF host_raises /\ uv_colors # << >>
                       THEN Raise("Sampling")
                       ELSE AppendUVSamples(shape, uv_set, uv_colors,
                                dominant_color_opens(texture_path, first_tile))
                    /\ log' = log \o dominant_color_messages(texture_path, disk,
                                        load_truncated, first_tile, resample)
                    /\ UNCHANGED samplerVars
            ELSE \E fail_at \in {0, Len(shape.uvs)} :
                    LET r == sample_uv_colors_from_udim(shape, uv_set,
                                 convert_to_udim_template(texture_path), disk,
                                 load_truncated, failed_textures, fail_at)
                    IN /\ IF r.status = "raised"
                          THEN Raise("Sampling")
                          ELSE AppendUVSamples(shape, uv_set, r.results, r.opened)
                       /\ disk' = r.disk
                       /\ load_truncated' = r.flag
                       /\ failed_textures' = r.failed
                       /\ scene' = [scene EXCEPT ![pass.idx].current = r.current]
                       /\ log' = log \o r.log
                       /\ UNCHANGED call
       ELSE \E host_raises \in BOOLEAN :
               /\ IF host_raises
                  THEN Raise("Sampling")
                  ELSE AppendUVSamples(shape, uv_set,
                                       sample_flat_color(shape, info.value), << >>)
               /\ UNCHANGED <<samplerVars, log>>
    /\ UNCHANGED <<files, loaded, cacheVars, assignVars>>

\* if per_uv_samples: matched_meshes.append(...); then setValue and
\* processEvents, the only place where a click on Cancel reaches the dialog.
Record ==
    /\ pc = "Recording"
    /\ \E click \in BOOLEAN :
          pass' = [pass EXCEPT
              !.matched_meshes =
                  IF pass.per_uv_samples # << >>
                  THEN Append(@, PyDict([object |-> ObjectPath(scene[pass.idx]),
                                         uv_sets |-> PyList(pass.per_uv_samples)]))
                  ELSE @,
              !.idx = @ + 1,
              !.canceled = @ \/ click]
    /\ pc' = "Scanning"
    /\ UNCHANGED <<files, loaded, cacheVars, samplerVars, log, assignVars>>

\* os.makedirs(output_folder) when it is missing, then open(path, "w"), which
\* empties a file that was there.  Either may fail; cmds.error then raises.
FinalizeOpen ==
    /\ pc = "Finalizing"
    /\ \E outcome \in {"makedirs fails", "open fails", "opened"} :
          /\ outcome = "makedirs fails" => ~files.folder
          /\ IF outcome = "opened"
             THEN /\ files' = [files EXCEPT !.folder = TRUE, !.sample = Written(<< >>)]
                  /\ pc' = "Writing"
                  /\ UNCHANGED <<pass, log>>
             ELSE /\ files' = [files EXCEPT
                                 !.folder = @ \/ outcome = "open fails"]
                  /\ Raise("Finalizing")
                  /\ log' = Append(log, "Failed to save UV sample data")
    /\ UNCHANGED <<loaded, cacheVars, samplerVars, assignVars>>

\* json.dump(json_data, f, indent=4) and the close of the file: the whole
\* text, or, when a write fails, what had reached the file.
FinalizeDump ==
    /\ pc = "Writing"
    /\ LET text == json_encode(json_data_of(pass.matched_meshes)) IN
       \E written \in {0, Len(text) \div 2, Len(text)} :
          /\ files' = [files EXCEPT !.sample = Written(SubSeq(text, 1, written))]
          /\ IF written = Len(text)
             THEN pc' = "Legacy" /\ UNCHANGED <<pass, log>>
             ELSE /\ Raise("Finalizing")
                  /\ log' = Append(log, "Failed to save UV sample data")
    /\ UNCHANGED <<loaded, cacheVars, samplerVars, assignVars>>

\* cmds.sets(sg, query=True): the shapes of a scene bound to the shading
\* group of a material.
members_in(sc, material) ==
    {i \in 1..Len(sc) : /\ sc[i].shader # None
                        /\ "placeholder" \notin DOMAIN sc[i].shader
                        /\ sc[i].shader.name = material}

\* The shapes of the scene bound to the shading group of a material.
MembersOf(material) == members_in(scene, material)

RECURSIVE list_of(_)
list_of(S) ==
    IF S = {} THEN << >>
    ELSE LET x == CHOOSE y \in S : \A z \in S : y <= z
         IN <<x>> \o list_of(S \ {x})

\* The name of a material's node as a key of the legacy document: the name
\* of an original material, or that of a placeholder, which is made of its
\* colour and of what the host added to make it unique.
node_name(shader) ==
    IF "placeholder" \in DOMAIN shader THEN shader.name
    ELSE [node |-> shader.name]

\* shader_info of _get_oldShader_ for the object paths of a sample document,
\* in a scene: for the material of each listed shape that has one, the
\* members of its shading group, whatever material that is at the time.
shader_info_in(sc, objects) ==
    LET listed == {j \in 1..Len(sc) : /\ ObjectPath(sc[j]) \in objects
                                      /\ sc[j].shader # None}
        bound_with(j) == {i \in 1..Len(sc) :
                            /\ sc[i].shader # None
                            /\ node_name(sc[i].shader) = node_name(sc[j].shader)}
    IN [m \in {node_name(sc[j].shader) : j \in listed} |->
          LET members == list_of(bound_with(
                             CHOOSE j \in listed : node_name(sc[j].shader) = m))
          IN PyDict([connected_objects |->
                        PyList([k \in 1..Len(members) |-> ObjectPath(sc[members[k]])]),
                     object_count |-> PyInt(Len(members))])]

\* shader_info of _get_oldShader_ for the object paths of a sample document.
shader_info_of(objects) == shader_info_in(scene, objects)

\* utils._get_oldShader_(jsonfile=json_output_path): the sample document is
\* read back, the shader connections of its objects are gathered and written
\* to OlderShader.json beside it; nothing is written when there are none.
\* Then the method returns the path.
SaveLegacy ==
    /\ pc = "Legacy"
    /\ LET data == json_load(files.sample.text)
           meshes == data.dict.meshes.list
           objects == {meshes[i].dict.object : i \in 1..Len(meshes)}
           shader_info == shader_info_of(objects)
       IN IF DOMAIN shader_info = {}
          THEN /\ pc' = "Done"
               /\ pass' = [pass EXCEPT !.result = PyStr(SamplePath)]
               /\ log' = log \o <<"Loaded JSON data from",
                                   "No shader connections found.">>
               /\ UNCHANGED files
          ELSE LET text == json_encode(PyDict([shader_connections |->
                                                  PyDict(shader_info)]))
               IN \E written \in {Len(text) \div 2, Len(text)} :
                     /\ files' = [files EXCEPT
                                    !.legacy = Written(SubSeq(text, 1, written))]
                     /\ IF written = Len(text)
                        THEN /\ pc' = "Done"
                             /\ pass' = [pass EXCEPT !.result = PyStr(SamplePath)]
                             /\ log' = log \o <<"Loaded JSON data from",
                                                 "Shader connection data:",
                                                 "Shader connection data saved to">>
                        ELSE /\ Raise("Legacy")
                             /\ log' = log \o <<"Loaded JSON data from",
                                                 "Shader connection data:",
                                                 "Failed to save JSON">>
    /\ UNCHANGED <<loaded, cacheVars, samplerVars, assignVars>>

\* ShaderAssigner.load_json_data(json_path) on the sample document, once the
\* pass has ended.
LoadJson ==
    /\ pc \in {"Done", "Failed"}
    /\ loaded = [unread |-> TRUE]
    /\ loaded' = [data |-> load_json_data(files.sample)]
    /\ log' = Append(log, load_json_message(files.sample))
    /\ UNCHANGED <<pc, pass, files, cacheVars, samplerVars, assignVars>>

(***************************************************************************)
(* The specifications.                                                     *)
(***************************************************************************)

IdleCall == [status |-> "idle"]

EmptyDocument == Written(json_encode(json_data_of(<< >>)))

\* The output folder before a pass: missing, or holding the documents of an
\* earlier pass.
Folders ==
    { [folder |-> FALSE, sample |-> Absent, legacy |-> Absent],
      [folder |-> TRUE, sample |-> EmptyDocument, legacy |-> EmptyDocument] }

NewPass(namespace, start) ==
    [idx |-> 1, uv_i |-> 1, matched_meshes |-> << >>, per_uv_samples |-> << >>,
     canceled |-> FALSE, namespace |-> namespace,
     sample_count |-> DefaultSampleCount, failed_from |-> "", result |-> None,
     opened |-> << >>, produced |-> << >>, start |-> start, round |-> 1]

IdleJob == [op |-> "idle"]

\* The materials the shapes of a scene are bound to, each with its shading group.
ShadersOf(sc) ==
    LET bound == {j \in 1..Len(sc) : sc[j].shader # None} IN
    [m \in {sc[i].shader.name : i \in bound} |->
        [sg |-> TRUE,
         info |-> sc[CHOOSE i \in bound : sc[i].shader.name = m].shader.info]]

IdlePass ==
    /\ pc = "Idle"
    /\ pass = NewPass(None, None)
    /\ files = [folder |-> FALSE, sample |-> Absent, legacy |-> Absent]
    /\ loaded = [unread |-> TRUE]
    /\ log = << >>
    /\ job = IdleJob
    /\ shaders = << >>

\* The batch pass: sample_and_save_all_meshes over a scene, then the read of
\* its document.
Init ==
    /\ InitCache
    /\ disk = Disk0
    /\ load_truncated = FALSE
    /\ failed_textures = {}
    /\ scene \in Scenes
    /\ call = IdleCall
    /\ pc = "Idle"
    /\ files \in Folders
    /\ \E namespace \in {None, FilterAB} :
          pass = NewPass(namespace, [scene |-> scene, files |-> files])
    /\ loaded = [unread |-> TRUE]
    /\ log = << >>
    /\ job = IdleJob
    /\ shaders = ShadersOf(scene)

Next ==
    \/ StartPass
    \/ ScanNext
    \/ Resolve
    \/ SampleUVSet
    \/ Record
    \/ FinalizeOpen
    \/ FinalizeDump
    \/ SaveLegacy
    \/ LoadJson

Spec == Init /\ [][Next]_vars

\* The sample counts a pass is run with: none, fewer than a shape has UV
\* components, and the default.
SampleCounts == {0, 1, DefaultSampleCount}

\* Scenes with a surface of each kind the pass passes over (another
\* namespace, no material, a material without texture or colour, a file node
\* without path, no UV set) beside surfaces it samples, one of them with a
\* <f> texture of which no file exists.
CountedScenes ==
    {[i \in 1..Len(ks) |-> MakeShape(ks[i], i)] :
        ks \in {<<"ok", "f_gone">>, <<"flat_cd", "mix">>, <<"nomat", "ok">>,
                <<"nouv", "noinfo", "flat_a">>, <<"nopath", "f">>,
                <<"f_gone", "nouv", "ok">>}}

\* The batch pass run with a sample_count of the caller's choice.
InitCount ==
    /\ InitCache
    /\ disk = Disk0
    /\ load_truncated = FALSE
    /\ failed_textures = {}
    /\ scene \in CountedScenes
    /\ call = IdleCall
    /\ pc = "Idle"
    /\ files \in Folders
    /\ \E namespace \in {None, FilterAB}, sample_count \in SampleCounts :
          pass = [NewPass(namespace, [scene |-> scene, files |-> files])
                    EXCEPT !.sample_count = sample_count]
    /\ loaded = [unread |-> TRUE]
    /\ log = << >>
    /\ job = IdleJob
    /\ shaders = ShadersOf(scene)

SpecCount == InitCount /\ [][Next]_vars

\* One call of sample_uv_colors_from_udim on a shape with two UV sets.
InitSample ==
    /\ InitCache
    /\ IdlePass
    /\ disk = Disk0
    /\ load_truncated \in BOOLEAN
    /\ failed_textures = {}
    /\ \E uvs \in UVLists :
          scene = <<Shape(ShortName(NsAB, 1), None, <<"map1", "uvSet2">>, "map1", uvs)>>
    /\ call = IdleCall

NextSample == SampleCall

SpecSample == InitSample /\ [][NextSample]_vars

\* How long the sides of the images given to get_dominant_color are at most.
MaxSide == 2

\* The files get_dominant_color is called on: solid images (in the spec's
\* example colour, the extremes and one more) and patterned ones, whole or
\* truncated, a file that is no image, and no file.
DominantFiles ==
    LET SolidColors == {<<10, 20, 30>>, <<0, 0, 0>>, <<255, 255, 255>>, <<200, 1, 99>>}
        imgs == {Solid(w, h, c) : w \in 1..MaxSide, h \in 1..MaxSide, c \in SolidColors}
                \cup {Image(w, h, id) : w \in 1..MaxSide, h \in 1..MaxSide, id \in {1, 7}}
    IN {File(k, i) : k \in {"ok", "truncated"}, i \in imgs}
       \cup {File("garbage", Image(1, 1, 1)), NoFile}

DominantPath == resolve_tile_path(TplPlain, 1001)

\* One call of get_dominant_color(image_path).
DominantCall ==
    /\ call.status = "idle"
    /\ \E resample \in Resamples :
          LET c == get_dominant_color(disk, load_truncated, DominantPath, resample)
          IN /\ call' = [status |-> "returned", image_path |-> DominantPath,
                         resample |-> resample, result |-> c]
             /\ log' = IF c = None THEN Append(log, "Failed to get dominant color")
                        ELSE log
    /\ UNCHANGED <<disk, load_truncated, failed_textures, scene>>
    /\ UNCHANGED <<cacheVars, passVars, assignVars>>

InitDominant ==
    /\ InitCache
    /\ IdlePass
    /\ disk \in {[Disk0 EXCEPT ![DominantPath] = f] : f \in DominantFiles}
    /\ load_truncated \in BOOLEAN
    /\ failed_textures = {}
    /\ scene = << >>
    /\ call = IdleCall

NextDominant == DominantCall

SpecDominant == InitDominant /\ [][NextDominant]_vars

(***************************************************************************)
(* ShaderAssigner.process_json_and_assign_shaders                          *)
(***************************************************************************)

\* dict.get(key, default)
dict_get(d, key, default) ==
    IF key \in DOMAIN d.dict THEN d.dict[key] ELSE default

\* not value, for the values a document holds: None, "" and [] are false.
is_falsy(value) ==
    \/ value = None
    \/ value = PyStr(<< >>)
    \/ value = PyList(<< >>)
    \/ value = PyDict(<< >>)

\* find_object_in_scene(object_path): the shapes it may return, none when it
\* returns None.  short_name is the text after the last ":"; cmds.ls of
\* "*:short_name*" answers the nodes of that name in a namespace, and whether
\* it also answers a node outside any namespace, and which answer comes
\* first, is the host's choice.  The second search, for transforms, finds the
\* same surfaces, a surface standing for a shape and its transform.
find_object_in_scene(sc, object_path) ==
    LET name == object_path.str
        short_name == name[Len(name)]
    IN {i \in 1..Len(sc) : sc[i].name[Len(sc[i].name)] = short_name}

\* Whether find_object_in_scene may return None: no node of that name is in a
\* namespace.
find_object_may_fail(sc, object_path) ==
    \A i \in find_object_in_scene(sc, object_path) : Len(sc[i].name) = 1

\* The loop of process_json_and_assign_shaders for the first sample colour:
\* the colour of the first sample of each UV set that has samples, until one
\* is true; the last one read otherwise.
RECURSIVE first_sample_color(_, _, _)
first_sample_color(uv_sets, i, color) ==
    IF i > Len(uv_sets) THEN color
    ELSE LET samples == dict_get(uv_sets[i], "samples", PyList(<< >>)) IN
         IF is_falsy(samples) THEN first_sample_color(uv_sets, i + 1, color)
         ELSE LET c == dict_get(samples.list[1], "color", None) IN
              IF is_falsy(c) THEN first_sample_color(uv_sets, i + 1, c)
              ELSE c

\* tuple(color_rgb) of a colour read from a document or returned by
\* get_dominant_color: the key of the cache.
color_key(color) ==
    LET items == IF "list" \in DOMAIN color THEN color.list ELSE color.tuple
    IN [i \in 1..Len(items) |-> items[i].int]

\* The material a surface shows once it is bound to a placeholder's shading
\* group: a lambert whose colour is the placeholder's.
placeholder_shader(sg) ==
    [name |-> sg,
     info |-> [type |-> "color",
               value |-> PyList([i \in 1..3 |-> PyInt(sg.name[i])])],
     placeholder |-> TRUE]

\* assign_shader_to_object raising what cmds.sets raises.
assign_shader_to_object_raising(sc, i, sg, bind_fails) ==
    IF bind_fails
    THEN [scene |-> sc, log |-> << >>, raised |-> TRUE]
    ELSE [scene |-> [sc EXCEPT ![i].shader = placeholder_shader(sg)],
          log |-> << >>, raised |-> FALSE]

\* assign_shader_to_object(object_name, shading_group): cmds.sets with
\* forceElement, whose exception is printed and swallowed.
assign_shader_to_object(sc, i, sg, bind_fails) ==
    IF bind_fails
    THEN [scene |-> sc, log |-> <<"Failed to assign shader">>, raised |-> FALSE]
    ELSE [scene |-> [sc EXCEPT ![i].shader = placeholder_shader(sg)],
          log |-> << >>, raised |-> FALSE]

\* What the assigner works on: the scene, the cache, the placeholder
\* materials and the messages printed.
World(sc, cache, mats, ins, lg) ==
    [scene |-> sc, cache |-> cache, materials |-> mats, inserted |-> ins,
     log |-> lg]

\* The end of one entry: the world it leaves and what happened.
Outcome(w, event, messages) ==
    [scene |-> w.scene, cache |-> w.cache, materials |-> w.materials,
     inserted |-> w.inserted, log |-> w.log \o messages, event |-> event]

\* assign_shader_to_object on the surface i with a shading group: the
\* outcomes, the host accepting the binding or not.
bind_surface(w, i, sg) ==
    {LET a == assign_shader_to_object(w.scene, i, sg, bind_fails) IN
     [scene |-> a.scene, cache |-> w.cache, materials |-> w.materials,
      inserted |-> w.inserted, log |-> w.log \o a.log,
      event |-> IF a.raised THEN "raised"
                ELSE IF bind_fails THEN "bind failed" ELSE "bound"] :
        bind_fails \in BOOLEAN}

\* The world after get_or_create_shader_for_color had the outcome o.
with_shader(w, o) ==
    [w EXCEPT !.cache = o.cache, !.materials = o.materials,
              !.inserted = o.inserted]

\* get_or_create_shader_for_color(color, tolerance) and then
\* assign_shader_to_object on the surface i: the outcomes.
shade_surface(w, i, color_rgb, tolerance) ==
    UNION {bind_surface(with_shader(w, o), i, o.sg) :
             o \in shader_for_color(w.cache, w.materials, w.inserted,
                                    color_rgb, tolerance)}

\* The body of the loop over the entries with the shader looked up before
\* the object is searched for.
assign_entry_shader_first(w, mesh_data) ==
    LET object_path == dict_get(mesh_data, "object", None)
        uv_sets == dict_get(mesh_data, "uv_sets", PyList(<< >>))
    IN
    IF is_falsy(object_path)
    THEN {Outcome(w, "no object", <<"No object path found for a mesh entry.">>)}
    ELSE IF is_falsy(uv_sets)
    THEN {Outcome(w, "no uv sets", <<"No UV sets found for object">>)}
    ELSE LET found == find_object_in_scene(w.scene, object_path)
             color == first_sample_color(uv_sets.list, 1, None)
         IN IF is_falsy(color)
            THEN {Outcome(w, "no color", <<"No sample color found for object">>)}
            ELSE UNION {
                   (IF find_object_may_fail(w.scene, object_path)
                    THEN {Outcome(with_shader(w, o), "unresolved",
                                  <<"No matching object found for path:">>)}
                    ELSE {})
                   \cup UNION {bind_surface(with_shader(w, o), i, o.sg) : i \in found}
                     : o \in shader_for_color(w.cache, w.materials, w.inserted,
                                              color_key(color), DefaultTol)}

\* The body of the loop of process_json_and_assign_shaders over the entries
\* of the document, for one entry: the outcomes.
assign_entry(w, mesh_data) ==
    LET object_path == dict_get(mesh_data, "object", None)
        uv_sets == dict_get(mesh_data, "uv_sets", PyList(<< >>))
    IN
    IF is_falsy(object_path)
    THEN {Outcome(w, "no object", <<"No object path found for a mesh entry.">>)}
    ELSE IF is_falsy(uv_sets)
    THEN {Outcome(w, "no uv sets", <<"No UV sets found for object">>)}
    ELSE LET found == find_object_in_scene(w.scene, object_path)
             color == first_sample_color(uv_sets.list, 1, None)
         IN (IF find_object_may_fail(w.scene, object_path)
             THEN {Outcome(w, "unresolved", <<"No matching object found for path:">>)}
             ELSE {})
            \cup
            (IF found = {} THEN {}
             ELSE IF is_falsy(color)
             THEN {Outcome(w, "no color", <<"No sample color found for object">>)}
             ELSE UNION {shade_surface(w, i, color_key(color), DefaultTol)
                           : i \in found})

\* The state the assigner works on.
Now == World(scene, shader_cache, materials, inserted, log)

\* The state an outcome leaves.
Becomes(o) ==
    /\ scene' = o.scene
    /\ shader_cache' = o.cache
    /\ materials' = o.materials
    /\ inserted' = o.inserted
    /\ log' = o.log

\* A job that ended: how (returned, or left by an exception), which job it
\* was, and what happened in its loop.
Ended(op, was, events) == [op |-> op, was |-> was, events |-> events]

\* ShaderAssigner().process_json_and_assign_shaders(json_path), up to its
\* loop: a new assigner with an empty cache reads the document; nothing more
\* is done when the document is missing, unreadable or empty or has no
\* entries.
StartAssign ==
    /\ job.op = "idle"
    /\ LET data == load_json_data(files.sample)
           meshes == IF is_falsy(data) THEN PyList(<< >>)
                     ELSE dict_get(data, "meshes", PyList(<< >>))
           loaded_message == <<load_json_message(files.sample)>>
       IN /\ shader_cache' = << >>
          /\ inserted' = << >>
          /\ IF is_falsy(data)
             THEN /\ job' = Ended("assigned", "assign", << >>)
                  /\ log' = log \o loaded_message
             ELSE IF is_falsy(meshes)
             THEN /\ job' = Ended("assigned", "assign", << >>)
                  /\ log' = log \o loaded_message \o <<"No 'meshes' found in JSON.">>
             ELSE /\ job' = [op |-> "assign", meshes |-> meshes.list, i |-> 1,
                             events |-> << >>]
                  /\ log' = log \o loaded_message
    /\ UNCHANGED <<materials, req, ret, samplerVars, passVars, shaders>>

\* One turn of the loop of process_json_and_assign_shaders.
AssignEntry ==
    /\ job.op = "assign"
    /\ \E o \in assign_entry(Now, job.meshes[job.i]) :
          /\ Becomes(o)
          /\ job' = IF o.event = "raised"
                    THEN Ended("raised", "assign", Append(job.events, o.event))
                    ELSE IF job.i = Len(job.meshes)
                    THEN Ended("assigned", "assign", Append(job.events, o.event))
                    ELSE [job EXCEPT !.i = @ + 1,
                                     !.events = Append(@, o.event)]
    /\ UNCHANGED <<req, ret, disk, load_truncated, failed_textures, call,
                   passVars, shaders>>

(***************************************************************************)
(* shader_re_assigner.re_assigner_old                                      *)
(***************************************************************************)

\* What happened to one listed surface.
Rebound(shader, obj, event, exists) ==
    [shader |-> shader, obj |-> obj, event |-> event, exists |-> exists]

\* The body of the loop over the connected objects of a material: the name
\* without its namespace, obj.split(":")[-1], is tested with objExists; the
\* full name is bound with cmds.sets, which raises for a name that is no
\* node and may raise for one the host refuses; the exception is printed.
rebind_object(st, shs, shader, obj) ==
    LET obj_exists(name) == \E i \in 1..Len(st.scene) : st.scene[i].name = name
        base_obj == <<obj.str[Len(obj.str)]>>
        exists == obj_exists(obj.str)
        bound_shader == IF "node" \in DOMAIN shader
                        THEN [name |-> shader.node,
                              info |-> shs.shaders[shader.node].info]
                        ELSE placeholder_shader(shader)
    IN
    IF ~obj_exists(base_obj)
    THEN {[scene |-> st.scene,
           log |-> Append(st.log, "Object not found"),
           events |-> Append(st.events, Rebound(shader, obj, "not found", exists))]}
    ELSE {IF bind_fails \/ ~exists
          THEN [scene |-> st.scene,
                log |-> Append(st.log, "Failed assigning"),
                events |-> Append(st.events, Rebound(shader, obj, "failed", exists))]
          ELSE [scene |-> [i \in 1..Len(st.scene) |->
                             IF st.scene[i].name = obj.str
                             THEN [st.scene[i] EXCEPT !.shader = bound_shader]
                             ELSE st.scene[i]],
                log |-> Append(st.log, "Assigned"),
                events |-> Append(st.events, Rebound(shader, obj, "bound", exists))]
            : bind_fails \in BOOLEAN}

\* for obj in objects, from the k-th on.
RECURSIVE rebind_objects(_, _, _, _, _)
rebind_objects(st, shs, shader, objects, k) ==
    IF k > Len(objects) THEN {st}
    ELSE UNION {rebind_objects(t, shs, shader, objects, k + 1) :
                  t \in rebind_object(st, shs, shader, objects[k])}

\* The body of the loop over shader_connections.items() for one material,
\* in a scene holding the original materials shs.shaders and the
\* placeholders shs.materials: a material that is not in the scene, or has
\* no shading group, is printed and passed over.
restore_shader(st, shs, shader, info) ==
    LET objects == dict_get(info, "connected_objects", PyList(<< >>))
        in_scene == IF "node" \in DOMAIN shader
                    THEN shader.node \in DOMAIN shs.shaders
                    ELSE shader \in shs.materials
        has_sg == IF "node" \in DOMAIN shader
                  THEN shs.shaders[shader.node].sg ELSE TRUE
    IN
    IF ~in_scene
    THEN {[scene |-> st.scene,
           log |-> Append(st.log, "Shader not found"),
           events |-> Append(st.events,
                             Rebound(shader, None, "shader not found", FALSE))]}
    ELSE IF ~has_sg
    THEN {[scene |-> st.scene,
           log |-> Append(st.log, "No shading group found for"),
           events |-> Append(st.events,
                             Rebound(shader, None, "no shading group", FALSE))]}
    ELSE rebind_objects(st, shs, shader, objects.list, 1)

\* re_assigner_old(json_path) up to its loop: open raises for a missing
\* file; a document that does not parse is printed and False returned.  The
\* model runs it on the scene as it is, or after the assignment from the
\* sample document.
StartRestore ==
    /\ \/ job.op = "idle"
       \/ job.op = "assigned" /\ job.was = "assign"
    /\ IF files.legacy = Absent
       THEN job' = Ended("raised", "restore", << >>) /\ UNCHANGED log
       ELSE LET data == json_load(files.legacy.text) IN
            IF data = ParseError
            THEN /\ job' = Ended("not parsed", "restore", << >>)
                 /\ log' = Append(log, "Failed to parse JSON")
            ELSE LET shader_connections ==
                         dict_get(data, "shader_connections", PyDict(<< >>))
                 IN /\ job' = [op |-> "restore",
                               connections |-> shader_connections.dict,
                               order |-> keys_in_order(DOMAIN shader_connections.dict),
                               k |-> 1, events |-> << >>]
                    /\ UNCHANGED log
    /\ UNCHANGED <<cacheVars, samplerVars, passVars, shaders>>

\* One turn of the loop over shader_connections.items().
RestoreShader ==
    /\ job.op = "restore"
    /\ job.k <= Len(job.order)
    /\ LET shader == job.order[job.k] IN
       \E t \in restore_shader([scene |-> scene, log |-> log, events |-> job.events],
                               [shaders |-> shaders, materials |-> materials],
                               shader, job.connections[shader]) :
          /\ scene' = t.scene
          /\ log' = t.log
          /\ job' = [job EXCEPT !.k = @ + 1, !.events = t.events]
    /\ UNCHANGED <<cacheVars, disk, load_truncated, failed_textures, call,
                   passVars, shaders>>

\* delete_unused_shaders(), after the loop: every shading group without
\* members, of an original material or of a placeholder, goes with its
\* material, but for those cmds.delete refuses (the nodes of a reference),
\* whose exception is passed over.
DeleteUnused ==
    /\ job.op = "restore"
    /\ job.k > Len(job.order)
    /\ LET placeholder_members(sg) ==
               {i \in 1..Len(scene) : /\ scene[i].shader # None
                                      /\ "placeholder" \in DOMAIN scene[i].shader
                                      /\ scene[i].shader.name = sg}
           unused_shaders ==
               {m \in DOMAIN shaders : shaders[m].sg /\ members_in(scene, m) = {}}
           unused_placeholders ==
               {m \in materials : placeholder_members(m) = {}}
       IN \E kept \in SUBSET unused_shaders :
             /\ shaders' = [m \in DOMAIN shaders \ (unused_shaders \ kept)
                              |-> shaders[m]]
             /\ materials' = materials \ unused_placeholders
             /\ log' = IF unused_shaders \ kept = {} /\ unused_placeholders = {}
                       THEN log
                       ELSE Append(log, "Deleted unused shaders")
    /\ job' = Ended("restored", "restore", job.events)
    /\ UNCHANGED <<shader_cache, req, ret, inserted, samplerVars, passVars>>

(***************************************************************************)
(* The callers of get_dominant_color outside the batch pass.               *)
(***************************************************************************)

\* The colour ProcessAndSampleMissingData and get_selected_dominant_colors
\* find for a surface whose material is seen: the dominant colour of the
\* texture file when its path exists, the material's own colour, or None;
\* with it what get_dominant_color prints.
surface_color(shape, d, flag, resample) ==
    IF shape.shader = None \/ shape.shader.info = None
    THEN [color |-> None, log |-> << >>]
    ELSE IF shape.shader.info.type = "file"
    THEN IF path_exists(d, shape.shader.info.value)
         THEN LET dominant_rgb ==
                      get_dominant_color(d, flag, shape.shader.info.value, resample)
              IN [color |-> dominant_rgb,
                  log |-> IF dominant_rgb = None
                          THEN <<"Failed to get dominant color">> ELSE << >>]
         ELSE [color |-> None, log |-> << >>]
    ELSE [color |-> PyTuple(shape.shader.info.value.list), log |-> << >>]

\* The loop of process_json_and_assign_shaders from the i-th entry on: the
\* outcomes.
RECURSIVE assign_entries(_, _, _)
assign_entries(w, meshes, i) ==
    IF i > Len(meshes) THEN {Outcome(w, "processed", << >>)}
    ELSE UNION {IF o.event = "raised" THEN {o}
                ELSE assign_entries(World(o.scene, o.cache, o.materials,
                                          o.inserted, o.log), meshes, i + 1) :
                  o \in assign_entry(w, meshes[i])}

\* process_json_and_assign_shaders(json_path) as one call on an assigner.
process_json_and_assign_shaders(w, f) ==
    LET data == load_json_data(f)
        meshes == IF is_falsy(data) THEN PyList(<< >>)
                  ELSE dict_get(data, "meshes", PyList(<< >>))
        w1 == [w EXCEPT !.log = Append(@, load_json_message(f))]
    IN IF is_falsy(data) THEN {Outcome(w1, "processed", << >>)}
       ELSE IF is_falsy(meshes)
       THEN {Outcome(w1, "processed", <<"No 'meshes' found in JSON.">>)}
       ELSE assign_entries(w1, meshes.list, 1)

\* any(uv.get("samples") for uv in uv_sets)
has_valid_samples(uv_sets) ==
    \E k \in 1..Len(uv_sets) : ~is_falsy(dict_get(uv_sets[k], "samples", None))

\* The body of the loop of ProcessAndSampleMissingData for one entry: the
\* outcomes.  An entry without samples takes the colour of the surface's
\* material; whether listConnections sees a shading group on the transform
\* find_object_in_scene returned is the host's answer.  An entry with
\* samples starts process_json_and_assign_shaders on the whole document.
missing_entry(w, mesh_entry, f, d, flag) ==
    LET object_path == dict_get(mesh_entry, "object", None)
        uv_sets == dict_get(mesh_entry, "uv_sets", PyList(<< >>))
        w1 == [w EXCEPT !.log = Append(@, "Samples null. Triggering Dominant Color Sampler")]
    IN
    IF has_valid_samples(uv_sets.list)
    THEN process_json_and_assign_shaders(w, f)
    ELSE IF object_path = None THEN {Outcome(w1, "raised", << >>)}
    ELSE (IF find_object_may_fail(w.scene, object_path)
          THEN {Outcome(w1, "unresolved",
                        <<"No matching object found for path:",
                          "Skipping: Object not found in scene.">>)}
          ELSE {})
         \cup
         UNION {
           {Outcome(w1, "no shader", << >>)}
           \cup
           UNION {LET c == surface_color(w.scene[i], d, flag, resample) IN
                  IF c.color = None
                  THEN {Outcome(w1, "no color", c.log)}
                  ELSE {[o EXCEPT !.log = Append(@, "Successfully applied dominant color")] :
                          o \in shade_surface(w1, i, color_key(c.color), DefaultTol)}
                    : resample \in Resamples}
             : i \in find_object_in_scene(w.scene, object_path)}

\* ProcessAndSampleMissingData(json_path) up to its loop: a new sampler and
\* a new assigner; cmds.error raises for a missing file and json.load for
\* one that does not parse.
StartMissing ==
    /\ job.op = "idle"
    /\ shader_cache' = << >>
    /\ inserted' = << >>
    /\ IF files.sample = Absent \/ json_load(files.sample.text) = ParseError
       THEN job' = Ended("raised", "missing", << >>)
       ELSE LET meshes == dict_get(json_load(files.sample.text), "meshes",
                                   PyList(<< >>)).list
            IN job' = IF meshes = << >> THEN Ended("assigned", "missing", << >>)
                      ELSE [op |-> "missing", meshes |-> meshes, i |-> 1,
                            events |-> << >>]
    /\ UNCHANGED <<materials, req, ret, samplerVars, passVars, log, shaders>>

\* One turn of the loop of ProcessAndSampleMissingData.
MissingEntry ==
    /\ job.op = "missing"
    /\ \E o \in missing_entry(Now, job.meshes[job.i], files.sample, disk,
                              load_truncated) :
          /\ Becomes(o)
          /\ job' = IF o.event = "raised"
                    THEN Ended("raised", "missing", Append(job.events, o.event))
                    ELSE IF job.i = Len(job.meshes)
                    THEN Ended("assigned", "missing", Append(job.events, o.event))
                    ELSE [job EXCEPT !.i = @ + 1,
                                     !.events = Append(@, o.event)]
    /\ UNCHANGED <<req, ret, disk, load_truncated, failed_textures, call,
                   passVars, shaders>>

\* get_selected_dominant_colors() for a selection of surfaces, from the
\* lowest on: the colours found and the messages printed.
RECURSIVE selected_colors(_, _, _, _, _)
selected_colors(sc, selection, d, flag, resample) ==
    IF selection = {} THEN [results |-> << >>, log |-> << >>]
    ELSE LET i == CHOOSE x \in selection : \A y \in selection : x <= y
             rest == selected_colors(sc, selection \ {i}, d, flag, resample)
             c == surface_color(sc[i], d, flag, resample)
             not_found == /\ sc[i].shader # None /\ sc[i].shader.info # None
                          /\ sc[i].shader.info.type = "file"
                          /\ ~path_exists(d, sc[i].shader.info.value)
             messages == IF sc[i].shader = None THEN <<"No shader found for">>
                         ELSE IF not_found THEN <<"Texture path not found for">>
                         ELSE IF c.color # None THEN c.log \o <<"Dominant Color">>
                         ELSE c.log
         IN [results |-> IF c.color = None THEN rest.results
                         ELSE <<[obj |-> i, rgb |-> c.color]>> \o rest.results,
             log |-> messages \o rest.log]

\* apply_dominant_color_as_shader() up to its loop: the colours of the
\* selection are gathered, then a new assigner is made.
StartApply ==
    /\ job.op = "idle"
    /\ \E selection \in SUBSET (1..Len(scene)), resample \in Resamples :
          LET r == selected_colors(scene, selection, disk, load_truncated, resample)
          IN /\ log' = IF selection = {}
                       THEN Append(log, "Please select at least one mesh.")
                       ELSE log \o r.log
             /\ job' = IF r.results = << >> THEN Ended("assigned", "apply", << >>)
                       ELSE [op |-> "apply", selection |-> selection,
                             results |-> r.results,
                             todo |-> 1..Len(r.results), events |-> << >>]
    /\ shader_cache' = << >>
    /\ inserted' = << >>
    /\ UNCHANGED <<materials, req, ret, samplerVars, passVars, shaders>>

\* One turn of the loop over color_data.items(), whose order is the dict's.
ApplyEntry ==
    /\ job.op = "apply"
    /\ \E k \in job.todo :
          \E o \in shade_surface(Now, job.results[k].obj,
                                 color_key(job.results[k].rgb), DefaultTol) :
             /\ Becomes(o)
             /\ job' = IF job.todo = {k}
                       THEN Ended("assigned", "apply", Append(job.events, o.event))
                       ELSE [job EXCEPT !.todo = @ \ {k},
                                        !.events = Append(@, o.event)]
    /\ UNCHANGED <<req, ret, disk, load_truncated, failed_textures, call,
                   passVars, shaders>>

\* One call of sample_using_dominant_color on a surface whose texture path
\* holds <f>; the directory scan meets any of the matching files first.
DominantSample ==
    /\ call.status = "idle"
    /\ job.op = "idle"
    /\ \E i \in 1..Len(scene), resample \in Resamples :
          /\ scene[i].shader # None /\ scene[i].shader.info # None
          /\ scene[i].shader.info.type = "file"
          /\ F_MARK \in {scene[i].shader.info.value[k] :
                           k \in 1..Len(scene[i].shader.info.value)}
          /\ LET f_template == scene[i].shader.info.value
                 tiles == matching_f_tiles(disk, f_template)
             IN \E first_tile \in (IF tiles = {} THEN {0} ELSE tiles) :
                   /\ call' = [status |-> "returned", shape |-> i,
                               first_tile |-> first_tile,
                               results |-> sample_using_dominant_color(
                                   scene[i], f_template, disk, load_truncated,
                                   first_tile, resample)]
                   /\ log' = log \o dominant_color_messages(
                                       f_template, disk, load_truncated,
                                       first_tile, resample)
    /\ UNCHANGED <<cacheVars, disk, load_truncated, failed_textures, scene,
                   passVars, assignVars>>

(***************************************************************************)
(* The scenes and documents of the assignment and the restore.             *)
(***************************************************************************)

\* How many entries the sample documents of the model hold at most.
MaxEntries == 2

\* The scenes a sampling pass ran over.
SampledScenes ==
    {[i \in 1..Len(ks) |-> MakeShape(ks[i], i)] :
        ks \in {<<"plain", "flat_cd">>, <<"mix", "flat_root">>,
                <<"f", "nomat">>, <<"flat_root">>}}

\* An entry of a sample document as the pass writes it, with one UV set,
\* for the i-th of the objects: with one sample or with none.  Each object
\* has a sample colour of its own, the first two within the tolerance of
\* each other.
MeshEntry(object_path, i, sampled) ==
    LET color == PyList(<<PyInt(98 + 2 * i), PyInt(100), PyInt(100)>>)
        samples == IF sampled
                   THEN <<Sample(UV(1, 2, 1, 4), None, None, color)>>
                   ELSE << >>
    IN PyDict([object |-> object_path,
               uv_sets |-> PyList(<<PyDict([uv_set |-> PyStr("map1"),
                                            samples |-> PyList(samples)])>>)])

\* The document of a pass that sampled every surface of the scene.
FullDocument(s0) ==
    json_data_of([i \in 1..Len(s0) |-> MeshEntry(ObjectPath(s0[i]), i, TRUE)])

\* The sample documents of the model: up to MaxEntries different entries,
\* each for a surface of the scene or for one that is in no scene, with a
\* sample or with none, or an entry without UV sets, or one without an
\* object path.
DocumentsOf(s0) ==
    LET objects == [i \in 1..(Len(s0) + 1) |->
                      IF i <= Len(s0) THEN ObjectPath(s0[i])
                      ELSE PyStr(ShortName(NsAB, 9))]
        entries ==
            {MeshEntry(objects[i], i, sampled) :
                i \in 1..Len(objects), sampled \in BOOLEAN}
            \cup {PyDict([object |-> objects[1], uv_sets |-> PyList(<< >>)]),
                  PyDict([uv_sets |-> PyList(<< >>)])}
    IN {json_data_of(meshes) :
          meshes \in {m \in UNION {[1..n -> entries] : n \in 0..MaxEntries} :
                        \A i, j \in 1..Len(m) : i # j => m[i] # m[j]}}

\* OlderShader.json as _get_oldShader_ writes it for a scene all of whose
\* surfaces are in the sample document; no file when no surface has a
\* material.
LegacyOf(s0) ==
    LET shader_info ==
            shader_info_in(s0, {ObjectPath(s0[i]) : i \in 1..Len(s0)})
    IN IF DOMAIN shader_info = {} THEN Absent
       ELSE Written(json_encode(PyDict([shader_connections |->
                                           PyDict(shader_info)])))

\* What may have become of a scene and its materials since the pass:
\* nothing; a surface deleted; a surface taken out of its namespace, as by
\* importing its reference; the shading group of a material deleted, with or
\* without the material, its surfaces left without one.
LaterScenes(s0) ==
    LET shs == ShadersOf(s0)
        without_surface(i) ==
            [k \in 1..(Len(s0) - 1) |-> IF k < i THEN s0[k] ELSE s0[k + 1]]
        without_namespace(i) ==
            [s0 EXCEPT ![i].name = <<s0[i].name[Len(s0[i].name)]>>]
        without_material(m) ==
            [k \in 1..Len(s0) |->
                IF s0[k].shader # None /\ s0[k].shader.name = m
                THEN [s0[k] EXCEPT !.shader = None] ELSE s0[k]]
    IN {[scene |-> s0, shaders |-> shs]}
       \cup {[scene |-> without_surface(i), shaders |-> shs] : i \in 1..Len(s0)}
       \cup {[scene |-> without_namespace(i), shaders |-> shs] : i \in 1..Len(s0)}
       \cup {[scene |-> without_material(m),
              shaders |-> [x \in DOMAIN shs \ {m} |-> shs[x]]] : m \in DOMAIN shs}
       \cup {[scene |-> without_material(m),
              shaders |-> [shs EXCEPT ![m].sg = FALSE]] : m \in DOMAIN shs}

\* The assignment, the restore and the other callers of the assigner, after
\* a sampling pass over a scene: the sample document is any of the model's
\* with the scene as the pass left it, or the full one with the scene
\* changed since; the legacy document is the one the pass wrote, whole or
\* cut short.
InitAssign ==
    /\ InitCache
    /\ disk = Disk0
    /\ load_truncated = FALSE
    /\ failed_textures = {}
    /\ call = IdleCall
    /\ pc = "Done"
    /\ loaded = [unread |-> TRUE]
    /\ log = << >>
    /\ job = IdleJob
    /\ \E s0 \in SampledScenes :
          /\ \/ /\ \E later \in LaterScenes(s0) :
                      scene = later.scene /\ shaders = later.shaders
                /\ \E document \in {FullDocument(s0)}, cut \in BOOLEAN :
                      files = [folder |-> TRUE,
                               sample |-> Written(json_encode(document)),
                               legacy |->
                                   IF cut /\ LegacyOf(s0) # Absent
                                   THEN Written(SubSeq(LegacyOf(s0).text, 1,
                                                Len(LegacyOf(s0).text) \div 2))
                                   ELSE LegacyOf(s0)]
             \/ /\ scene = s0
                /\ shaders = ShadersOf(s0)
                /\ \E document \in DocumentsOf(s0) :
                      files = [folder |-> TRUE,
                               sample |-> Written(json_encode(document)),
                               legacy |-> LegacyOf(s0)]
          /\ pass = [NewPass(None, [scene |-> s0, files |-> files])
                       EXCEPT !.result = PyStr(SamplePath)]

NextAssign ==
    \/ StartAssign
    \/ AssignEntry
    \/ StartRestore
    \/ RestoreShader
    \/ DeleteUnused
    \/ StartMissing
    \/ MissingEntry
    \/ StartApply
    \/ ApplyEntry
    \/ DominantSample

SpecAssign == InitAssign /\ [][NextAssign]_vars

\* How many passes the window runs on one asset.
MaxPasses == 2

\* get_selected_table_rows and pass_shader_generation_json: the window runs
\* a pass with a new UDIMSampler on every selected row whose result is not
\* "True", which no row's result ever is; the row becomes "Shader-Generated".
Regenerate ==
    /\ pc \in {"Done", "Failed", "Cancelled"}
    /\ job.op \in {"idle", "assigned", "raised", "restored", "not parsed"}
    /\ pass.round < MaxPasses
    /\ pc' = "Idle"
    /\ pass' = [NewPass(pass.namespace, pass.start) EXCEPT !.round = pass.round + 1]
    /\ failed_textures' = {}
    /\ job' = IdleJob
    /\ UNCHANGED <<cacheVars, disk, load_truncated, scene, call, files, loaded,
                   log, shaders>>

\* One asset in the window: passes, the assignment from the document of a
\* pass that returned its path, and the restore from the legacy document, in
\* any order the window's buttons allow.
InitCycle ==
    /\ InitCache
    /\ disk = Disk0
    /\ load_truncated = FALSE
    /\ failed_textures = {}
    /\ scene \in {[i \in 1..Len(ks) |-> MakeShape(ks[i], i)] :
                    ks \in {<<"flat_a">>, <<"plain", "flat_cd">>,
                            <<"nomat", "flat_root">>}}
    /\ call = IdleCall
    /\ pc = "Idle"
    /\ files \in Folders
    /\ pass = NewPass(None, [scene |-> scene, files |-> files])
    /\ loaded = [unread |-> TRUE]
    /\ log = << >>
    /\ job = IdleJob
    /\ shaders = ShadersOf(scene)

NextCycle ==
    \/ StartPass
    \/ ScanNext
    \/ Resolve
    \/ SampleUVSet
    \/ Record
    \/ FinalizeOpen
    \/ FinalizeDump
    \/ SaveLegacy
    \/ Regenerate
    \/ pc = "Done" /\ StartAssign
    \/ AssignEntry
    \/ pc = "Done" /\ StartRestore
    \/ RestoreShader
    \/ DeleteUnused

SpecCycle == InitCycle /\ [][NextCycle]_vars

\* re_assign_old_shader going from one selected row to the next: the restore
\* of the second asset reads that asset's OlderShader.json.
NextAsset ==
    /\ job.op \in {"restored", "raised", "not parsed"}
    /\ files.turn = 1
    /\ files' = [files EXCEPT !.legacy = files.other, !.other = files.legacy,
                              !.turn = 2]
    /\ job' = IdleJob
    /\ UNCHANGED <<cacheVars, samplerVars, pc, pass, loaded, log, shaders>>

\* Two assets in one scene, the first surface the one, the other surfaces
\* the other, each with the legacy document its pass wrote and each either
\* bound to its original materials still or to placeholders of their
\* colours; the window restores the first and then the second.
InitAssets ==
    /\ shader_cache = << >>
    /\ req = None
    /\ ret = None
    /\ inserted = << >>
    /\ disk = Disk0
    /\ load_truncated = FALSE
    /\ failed_textures = {}
    /\ call = IdleCall
    /\ pc = "Done"
    /\ loaded = [unread |-> TRUE]
    /\ log = << >>
    /\ job = IdleJob
    /\ \E ks \in {<<"flat_root", "flat_a">>, <<"flat_a", "flat_root">>,
                  <<"flat_root", "plain">>, <<"flat_cd", "flat_a", "plain">>},
          on_first \in BOOLEAN, on_others \in BOOLEAN :
          LET s0 == [i \in 1..Len(ks) |-> MakeShape(ks[i], i)]
              placeholder(i) ==
                  [name |-> IF s0[i].shader.info.type = "color"
                            THEN color_key(s0[i].shader.info.value)
                            ELSE <<5, 5, 5>>,
                   n |-> 0]
              assigned == {i \in 1..Len(s0) : IF i = 1 THEN on_first ELSE on_others}
              legacy_of(objects) ==
                  Written(json_encode(PyDict([shader_connections |->
                      PyDict(shader_info_in(s0, {ObjectPath(s0[i]) : i \in objects}))])))
          IN /\ scene = [i \in 1..Len(s0) |->
                           IF i \in assigned
                           THEN [s0[i] EXCEPT !.shader = placeholder_shader(placeholder(i))]
                           ELSE s0[i]]
             /\ materials = {placeholder(i) : i \in assigned}
             /\ shaders = ShadersOf(s0)
             /\ files = [folder |-> TRUE, sample |-> EmptyDocument,
                         legacy |-> legacy_of({1}),
                         other |-> legacy_of(2..Len(s0)), turn |-> 1]
             /\ pass = [NewPass(None, [scene |-> s0, files |-> files])
                          EXCEPT !.result = PyStr(SamplePath)]

NextAssets ==
    \/ StartRestore
    \/ RestoreShader
    \/ DeleteUnused
    \/ NextAsset

SpecAssets == InitAssets /\ [][NextAssets]_vars


\* The shader cache alone: the sampler's variables stay as constructed.
InitCacheOnly ==
    /\ InitCache
    /\ IdlePass
    /\ disk = Disk0
    /\ load_truncated = FALSE
    /\ failed_textures = {}
    /\ scene = << >>
    /\ call = IdleCall

SpecCache == InitCacheOnly /\ [][NextCache]_vars

\* One call of fix_and_reload_jpeg on a JPEG file of the disk.
RepairCall ==
    /\ call.status = "idle"
    /\ \E path \in {p \in DOMAIN disk : is_jpeg_family(p) /\ path_exists(disk, p)},
          fails_at \in RepairSteps :
          LET r == fix_and_reload_jpeg_at(disk, path, fails_at)
          IN /\ call' = [status |-> "repaired", path |-> path,
                         fails_at |-> fails_at, img |-> r.img,
                         disk_before |-> disk, flag_before |-> load_truncated]
             /\ disk' = r.disk
             /\ load_truncated' = r.flag
             /\ log' = log \o r.log
    /\ UNCHANGED <<failed_textures, scene, cacheVars, passVars, assignVars>>

InitRepair ==
    /\ InitCache
    /\ IdlePass
    /\ disk = Disk0
    /\ load_truncated \in BOOLEAN
    /\ failed_textures = {}
    /\ scene = << >>
    /\ call = IdleCall

SpecRepair == InitRepair /\ [][RepairCall]_vars

\* One assigner whose callers all pass the same tolerance, as those of the
\* repository do (process_json_and_assign_shaders passes the default on every
\* entry); req holds the tolerance from the start, and job the material each
\* colour was answered with first.
InitLookups ==
    /\ shader_cache = << >>
    /\ materials = {}
    /\ \E t \in {0, DefaultTol} : req = [color |-> None, tolerance |-> t]
    /\ ret = None
    /\ inserted = << >>
    /\ pc = "Idle"
    /\ pass = NewPass(None, None)
    /\ files = [folder |-> FALSE, sample |-> Absent, legacy |-> Absent]
    /\ loaded = [unread |-> TRUE]
    /\ log = << >>
    /\ job = [op |-> "lookups", answers |-> << >>]
    /\ shaders = << >>
    /\ disk = Disk0
    /\ load_truncated = FALSE
    /\ failed_textures = {}
    /\ scene = << >>
    /\ call = IdleCall

\* shader = self.get_or_create_shader_for_color(surface_color)
Lookup ==
    /\ \E c \in Colors :
          /\ get_or_create_shader_for_color(c, req.tolerance)
          /\ job' = [job EXCEPT !.answers =
                        IF c \in DOMAIN @ THEN @
                        ELSE [x \in DOMAIN @ \cup {c} |->
                                IF x = c THEN ret' ELSE @[x]]]
    /\ UNCHANGED <<samplerVars, passVars, log, shaders>>

SpecLookups == InitLookups /\ [][Lookup]_vars

(***************************************************************************)
(* Claims about the shader cache.                                          *)
(***************************************************************************)

Within(c, k, t) == \A i \in 1..3 : Abs(c[i] - k[i]) <= t

KeysWithin(cache, c, t) ==
    {i \in 1..Len(cache) : Within(c, cache[i].color, t)}

\* C1: a call get_or_create_shader_for_color(c, t) returns the material of a
\* cache entry whose key is within t of c on every channel (inclusive)
\* whenever such an entry exists, creating nothing; it creates a new material,
\* one the scene did not hold, only when no cache key is within t.
C1_HitWithinToleranceElseCreate ==
    [][ LET c == req'.color
            t == req'.tolerance
            near == KeysWithin(shader_cache, c, t)
        IN  IF near # {}
            THEN /\ \E i \in near : ret' = shader_cache[i].sg
                 /\ materials' = materials
            ELSE /\ ret' \notin materials
                 /\ materials' = materials \cup {ret'}
      ]_vars

\* C1 witness: (100,100,100) was cached, and the request (101,99,100) with
\* tolerance 2 was answered with its material, while a request for
\* (110,100,100) had made a second, different material.
C1_Witness ==
    /\ req = [color |-> <<101, 99, 100>>, tolerance |-> DefaultTol]
    /\ \E i \in 1..Len(shader_cache) :
          /\ shader_cache[i].color = <<100, 100, 100>>
          /\ ret = shader_cache[i].sg
    /\ \E j \in 1..Len(shader_cache) :
          /\ shader_cache[j].color = <<110, 100, 100>>
          /\ shader_cache[j].sg # ret
    /\ ~HasKey(shader_cache, <<101, 99, 100>>)

(***************************************************************************)
(* Claims about sample_uv_colors_from_udim.                                *)
(***************************************************************************)

Called == call.status # "idle"

\* floor(n/d) for d > 0: the integer k with k <= n/d < k + 1, sought in R.
FloorIn(R, n, d) == CHOOSE k \in R : k * d <= n /\ n < (k + 1) * d

TileRange == -2..3

\* The path of tile n under a template: every marker replaced by n.
TilePath(tpl, n) ==
    [i \in 1..Len(tpl) |->
        IF tpl[i] = Lit("<UDIM>") \/ tpl[i] = Lit("<f>") THEN [digits |-> n]
        ELSE tpl[i]]

\* The UDIM tile of a coordinate: 1001 + floor(U) + floor(V) * 10.
TileOf(uv) ==
    1001 + FloorIn(TileRange, uv.list[1].num, uv.list[1].den)
         + FloorIn(TileRange, uv.list[2].num, uv.list[2].den) * 10

SamplesOf(c) == {c.results[i].dict : i \in 1..Len(c.results)}

\* C2: every sample recorded by sample_uv_colors_from_udim for (U, V) with
\* U, V >= 0 carries tile = 1001 + floor(U) + floor(V) * 10, and its pixel
\* was read from the image of the file at the template with that tile
\* number substituted.
C2_TileFormula ==
    Called =>
      \A s \in SamplesOf(call) :
        (s.uv.list[1].num >= 0 /\ s.uv.list[2].num >= 0) =>
            /\ s.tile = PyInt(TileOf(s.uv))
            /\ LET f == call.disk_before[TilePath(call.udim_template, TileOf(s.uv))]
               IN /\ f.kind # "missing"
                  /\ s.color = getpixel(f.img, s.pixel.list[1].int,
                                        s.pixel.list[2].int)

\* C2 witness: the spec's example, U = 2.3 and V = 1.7, was sampled on tile 1013.
C2_Witness ==
    /\ call.status = "returned"
    /\ \E s \in SamplesOf(call) :
          /\ s.uv = UV(23, 10, 17, 10)
          /\ s.tile = PyInt(1013)

Clamp(x, lo, hi) == IF x < lo THEN lo ELSE IF x > hi THEN hi ELSE x

\* C3: every sample's pixel is
\*   x = clamp(floor((U - floor(U)) * width), 0, width - 1)
\*   y = clamp(floor((1 - (V - floor(V))) * height), 0, height - 1)
\* for the width and height of the tile's image, so that it lies inside the
\* image, also when V is on a tile boundary.
C3_PixelMapping ==
    Called =>
      \A s \in SamplesOf(call) :
        LET u == s.uv.list[1]
            v == s.uv.list[2]
            img == call.disk_before[TilePath(call.udim_template, s.tile.int)].img
            px == s.pixel.list[1].int
            py == s.pixel.list[2].int
            fu == FloorIn(TileRange, u.num, u.den)
            fv == FloorIn(TileRange, v.num, v.den)
            kx == FloorIn(0..img.w, (u.num - fu * u.den) * img.w, u.den)
            ky == FloorIn(0..img.h, (v.den - (v.num - fv * v.den)) * img.h, v.den)
        IN /\ px = Clamp(kx, 0, img.w - 1)
           /\ py = Clamp(ky, 0, img.h - 1)
           /\ 0 <= px /\ px < img.w
           /\ 0 <= py /\ py < img.h

\* C3 witness: on the 100 x 50 image of tile 1001, U = 0.5 and V = 0.25 gave
\* pixel (50, 37), and V = 0 on the tile boundary gave the last row, 49.
C3_Witness ==
    /\ call.status = "returned"
    /\ call.udim_template = TplOk
    /\ \E s \in SamplesOf(call) :
          s.uv = UV(1, 2, 1, 4) /\ s.pixel = PyList(<<PyInt(50), PyInt(37)>>)
    /\ \E s \in SamplesOf(call) :
          s.uv = UV(0, 1, 0, 1) /\ s.pixel = PyList(<<PyInt(0), PyInt(49)>>)

\* The components whose coordinates the loop resolved before it ended.
Resolved(c, shape) ==
    {i \in 1..Len(shape.uvs) :
        /\ shape.uvs[i] # None
        /\ c.fail_at = 0 \/ i < c.fail_at}

SetKnown(c, shape) ==
    \E k \in 1..Len(shape.uv_sets) : shape.uv_sets[k] = c.uv_set_name

\* C4: when the file of the tile path resolved for a UV coordinate does not
\* exist, the call records the path in failed_textures, returns no sample
\* for any coordinate of that tile, and raises nothing: the call raises only
\* when a host query does.  A UV set whose tiles are all missing gives no
\* sample at all.
C4_MissingTile ==
    (Called /\ SetKnown(call, scene[1])) =>
      /\ (call.status = "raised") <=> (call.fail_at # 0)
      /\ \A i \in Resolved(call, scene[1]) :
            LET tile == TileOf(scene[1].uvs[i])
                path == TilePath(call.udim_template, tile)
            IN call.disk_before[path].kind = "missing"
               => /\ path \in failed_textures
                  /\ \A s \in SamplesOf(call) :
                        TilePath(call.udim_template, s.tile.int) # path

\* C4 witness: a call on a template none of whose tiles exists returned, with
\* no sample, after resolving two coordinates on different tiles.
C4_Witness ==
    /\ call.status = "returned"
    /\ call.udim_template = TplGone
    /\ SetKnown(call, scene[1])
    /\ call.results = << >>
    /\ Cardinality(failed_textures) = 2

(***************************************************************************)
(* Claims about sample_and_save_all_meshes.                                *)
(***************************************************************************)

Unread == [unread |-> TRUE]

\* C5: once the cancellation has been observed the pass has stopped: it
\* samples no further surface and never enters Finalizing, and neither the
\* sample document nor the legacy document has been created or modified,
\* however many surfaces had been recorded.  The cancellation is observed
\* only at the head of the loop over surfaces, and a pending cancellation
\* is observed at the next head that finds a surface left.
C5_CancelStops ==
    /\ [](pc = "Cancelled" =>
            /\ files = pass.start.files
            /\ pass.result = None
            /\ pass.idx <= Len(scene))
    /\ [][ /\ pc = "Cancelled" => pc' = "Cancelled" /\ pass' = pass
           /\ (pc # "Cancelled" /\ pc' = "Cancelled") =>
                 pc = "Scanning" /\ pass.canceled
           /\ (pc = "Scanning" /\ pass.canceled /\ pass.idx <= Len(scene)) =>
                 pc' = "Cancelled"
           /\ (pc \in {"Resolving", "Sampling", "Recording"}) =>
                 pc' \in {"Scanning", "Sampling", "Recording", "Failed"}
         ]_vars

\* C5 witness: a pass was cancelled with one surface recorded and one left,
\* in a folder that held the documents of an earlier pass.
C5_Witness ==
    /\ pc = "Cancelled"
    /\ Len(pass.matched_meshes) = 1
    /\ pass.idx = 2
    /\ files.folder
    /\ files.sample = EmptyDocument

Complete(f) == f # Absent /\ json_load(f.text) # ParseError

\* C7: when creating the output directory or writing the sample document
\* fails, the pass ends Failed without a path and without a legacy document
\* written, and the output path holds a fully written document or was not
\* written at all: never a partial or truncated file.
C7_FailedWriteIsAllOrNothing ==
    (pc = "Failed" /\ pass.failed_from = "Finalizing") =>
        /\ pass.result = None
        /\ files.legacy = pass.start.files.legacy
        /\ \/ files.sample = pass.start.files.sample
           \/ Complete(files.sample)

\* C8: the pass reaches Failed only from Finalizing, on an error writing its
\* output: a failure met while a surface is sampled is passed over.
C8_FailedOnlyFromFinalizing ==
    pc = "Failed" => pass.failed_from \in {"Finalizing", "Legacy"}

\* The namespace of a surface: the part of its short name before the colon,
\* the empty root namespace when there is none.
NamespaceOf(name) == IF Len(name) > 1 THEN name[1] ELSE << >>

\* C9: when a namespace filter is passed, the records of the pass are of
\* surfaces whose namespace is the filter's.
C9_OnlyMatchingNamespaces ==
    pass.namespace # None =>
        \A i \in 1..Len(pass.matched_meshes) :
            NamespaceOf(pass.matched_meshes[i].dict.object.str)
                = Tail(pass.namespace.str)

\* What a reader of JSON gets for a tuple: the list of its items.
Listed(v) == IF "tuple" \in DOMAIN v THEN PyList(v.tuple) ELSE v

SampleKeys == {"uv", "tile", "pixel", "color"}

SameSamples(a, b) ==
    /\ Len(a) = Len(b)
    /\ \A k \in 1..Len(a) :
          /\ DOMAIN a[k].dict = SampleKeys
          /\ DOMAIN b[k].dict = SampleKeys
          /\ \A f \in SampleKeys : Listed(a[k].dict[f]) = b[k].dict[f]

SameUVSets(a, b) ==
    /\ Len(a) = Len(b)
    /\ \A j \in 1..Len(a) :
          /\ DOMAIN b[j].dict = {"uv_set", "samples"}
          /\ a[j].dict.uv_set = b[j].dict.uv_set
          /\ SameSamples(a[j].dict.samples.list, b[j].dict.samples.list)

SameMeshes(a, b) ==
    /\ Len(a) = Len(b)
    /\ \A i \in 1..Len(a) :
          /\ DOMAIN b[i].dict = {"object", "uv_sets"}
          /\ a[i].dict.object = b[i].dict.object
          /\ SameUVSets(a[i].dict.uv_sets.list, b[i].dict.uv_sets.list)

\* C10: load_json_data of the sample document a pass has written gives the
\* records of the pass: the same surfaces, with the same UV-set names and
\* the same samples (uv, tile, pixel and color, None where they were None),
\* in the same order.
C10_RoundTrip ==
    (loaded # Unread /\ (pc = "Done" \/ pass.failed_from = "Legacy")) =>
        /\ loaded.data # None
        /\ DOMAIN loaded.data.dict = {"meshes"}
        /\ SameMeshes(pass.matched_meshes, loaded.data.dict.meshes.list)

\* C10 witness: the document read back held a surface sampled from a texture
\* (with tile, pixel and a colour tuple) and a flat-coloured one (tile and
\* pixel None).
C10_Witness ==
    /\ pc = "Done"
    /\ loaded # Unread
    /\ Len(pass.matched_meshes) = 2
    /\ \E i \in 1..2 :
          LET smp == pass.matched_meshes[i].dict.uv_sets.list[1].dict.samples.list
          IN smp # << >> /\ smp[1].dict.pixel = None
    /\ \E i \in 1..2 :
          LET smp == pass.matched_meshes[i].dict.uv_sets.list[1].dict.samples.list
          IN smp # << >> /\ "tuple" \in DOMAIN smp[1].dict.color

(***************************************************************************)
(* More claims about the shader cache.                                     *)
(***************************************************************************)

\* The material the cache holds for a key.
CachedFor(cache, key) ==
    (CHOOSE e \in {cache[i] : i \in 1..Len(cache)} : e.color = key).sg

Entries(cache) == {cache[i] : i \in 1..Len(cache)}

\* C18: when several cache entries are within tolerance of the requested
\* colour, the call returns the material of the one whose key was inserted
\* first.
C18_FirstInInsertionOrder ==
    [][ LET c == req'.color
            t == req'.tolerance
            near == {i \in 1..Len(inserted) : Within(c, inserted[i], t)}
        IN  near # {} =>
               LET first == CHOOSE i \in near : \A j \in near : i <= j
               IN ret' = CachedFor(shader_cache, inserted[first])
      ]_vars

C17_EverySkipIsLogged ==
    [][ /\ (pc = "Resolving" /\ pc' = "Scanning") => Len(log') > Len(log)
        /\ failed_textures' # failed_textures => Len(log') > Len(log)
      ]_vars

\* C20: within one sampling pass each texture path is opened at most once.
C20_OpenedOncePerPass ==
    \A i, j \in 1..Len(pass.opened) :
        pass.opened[i] = pass.opened[j] => i = j

(***************************************************************************)
(* Claims about get_dominant_color and its callers.                        *)
(***************************************************************************)

Readable(d, flag, path) ==
    /\ d[path].kind # "missing"
    /\ d[path].kind = "ok" \/ (d[path].kind = "truncated" /\ flag)

\* C14: for a readable image all of whose pixels have the colour c,
\* get_dominant_color returns exactly c.
C14_SolidGivesItsColour ==
    (call.status = "returned"
        /\ Readable(disk, load_truncated, call.image_path)
        /\ "solid" \in DOMAIN disk[call.image_path].img) =>
       LET c == disk[call.image_path].img.solid
       IN call.result = PyTuple(<<PyInt(c[1]), PyInt(c[2]), PyInt(c[3])>>)

\* C14 witness: the spec's example, a 2 x 2 image of solid (10, 20, 30),
\* averaged to (10, 20, 30).
C14_Witness ==
    /\ call.status = "returned"
    /\ call.resample = "average"
    /\ disk[call.image_path] = File("ok", Solid(2, 2, <<10, 20, 30>>))
    /\ call.result = PyTuple(<<PyInt(10), PyInt(20), PyInt(30)>>)

(***************************************************************************)
(* Claims about the assignment and the restore.                            *)
(***************************************************************************)

\* The job's loop goes on to its next entry, or ends by returning.
GoesOn ==
    \/ /\ job'.op = job.op
       /\ job'.i = job.i + 1
       /\ job'.meshes = job.meshes
    \/ /\ job.i = Len(job.meshes)
       /\ job'.op = "assigned"

\* The last thing that happened in the job's loop.
LastEvent(j) == j.events[Len(j.events)]

\* The scene refuses the binding of the entry being processed.
BindingRefused ==
    /\ job.op = "assign"
    /\ Len(job'.events) = Len(job.events) + 1
    /\ LastEvent(job') \in {"bind failed", "raised"}

\* C12: when the scene refuses a binding, process_json_and_assign_shaders
\* prints the failure and goes on with the next entry of the document; the
\* batch is not left.
C12_BindFailureGoesOn ==
    [][BindingRefused =>
          /\ GoesOn
          /\ Len(log') > Len(log)
          /\ log'[Len(log')] = "Failed to assign shader"]_vars

\* C12 witness: the first entry's binding was refused, the second entry's
\* made.
C12_Witness ==
    /\ job.op = "assigned" /\ job.was = "assign"
    /\ job.events = <<"bind failed", "bound">>
    /\ \E k \in 1..Len(log) : log[k] = "Failed to assign shader"

\* The entry being processed names an object and has UV sets, and its
\* object is not found in the scene.
Unresolvable ==
    /\ job.op = "assign"
    /\ LET mesh_data == job.meshes[job.i] IN
       /\ ~is_falsy(dict_get(mesh_data, "object", None))
       /\ ~is_falsy(dict_get(mesh_data, "uv_sets", PyList(<< >>)))
       /\ \/ find_object_in_scene(scene, dict_get(mesh_data, "object", None)) = {}
          \/ /\ Len(job'.events) = Len(job.events) + 1
             /\ LastEvent(job') = "unresolved"

\* C13: an entry whose object cannot be resolved in the scene is passed
\* over: no material is created, no binding and no cache entry changes, and
\* the loop goes on with the next entry.
C13_UnresolvedEntrySkipped ==
    [][Unresolvable =>
          /\ materials' = materials
          /\ scene' = scene
          /\ shader_cache' = shader_cache
          /\ GoesOn]_vars

\* C13 witness: an entry for a surface that is in no scene was passed over
\* and the next entry's surface bound.
C13_Witness ==
    /\ job.op = "assigned" /\ job.was = "assign"
    /\ job.events = <<"unresolved", "bound">>
    /\ Cardinality(materials) = 1

\* The scene holds the surfaces and the materials the sampling pass saw.
SceneAsSampled ==
    /\ Len(scene) = Len(pass.start.scene)
    /\ \A i \in 1..Len(scene) : scene[i].name = pass.start.scene[i].name
    /\ shaders = ShadersOf(pass.start.scene)

\* C11: on a scene unchanged since the sampling pass but for the
\* placeholders assigned from its document, re_assigner_old over the
\* legacy document leaves every surface listed there bound to the shading
\* group of its original material, if the scene refuses no binding.
C11_RestoreRoundTrip ==
    (/\ job.op = "restore"
     /\ job.k > Len(job.order)
     /\ SceneAsSampled
     /\ \A k \in 1..Len(job.events) : job.events[k].event # "failed")
    => \A i \in 1..Len(scene) :
          pass.start.scene[i].shader # None =>
              scene[i].shader = pass.start.scene[i].shader

\* C16: in re_assigner_old a listed material that is not in the scene or has
\* no shading group, and a listed surface that is not in the scene, are
\* printed and passed over: a binding is attempted only for a surface that
\* is in the scene.
C16_OnlyExistingSurfacesBound ==
    job.op = "restore" =>
        \A k \in 1..Len(job.events) :
            /\ job.events[k].obj = None =>
                  job.events[k].event \in {"shader not found", "no shading group"}
            /\ (job.events[k].obj # None /\ ~job.events[k].exists) =>
                  job.events[k].event = "not found"

(***************************************************************************)
(* Claims about the callers of get_dominant_color.                         *)
(***************************************************************************)

\* The surface's material has a texture file that is there and cannot be
\* decoded.
Unreadable(shape) ==
    /\ shape.shader # None
    /\ "placeholder" \notin DOMAIN shape.shader
    /\ shape.shader.info # None
    /\ shape.shader.info.type = "file"
    /\ path_exists(disk, shape.shader.info.value)
    /\ ~can_decode(disk, load_truncated, shape.shader.info.value)

\* The entry ProcessAndSampleMissingData is at has no samples, and its
\* object is found, with an unreadable texture.
MissingUnreadable ==
    /\ job.op = "missing"
    /\ LET mesh_entry == job.meshes[job.i]
           object_path == dict_get(mesh_entry, "object", None)
       IN /\ ~has_valid_samples(dict_get(mesh_entry, "uv_sets", PyList(<< >>)).list)
          /\ object_path # None
          /\ find_object_in_scene(scene, object_path) # {}
          /\ \A i \in find_object_in_scene(scene, object_path) :
                Unreadable(scene[i])

\* The directory scan of sample_using_dominant_color met a file that cannot
\* be decoded.
SampledUnreadable ==
    /\ call.status = "idle"
    /\ call'.status = "returned"
    /\ "first_tile" \in DOMAIN call'
    /\ call'.first_tile # 0
    /\ ~can_decode(disk, load_truncated,
                   str_replace(scene[call'.shape].shader.info.value, F_MARK,
                               Num(call'.first_tile)))

\* C15: get_dominant_color gives None for an image that cannot be read, and
\* its callers then leave the surface alone and go on: ProcessAndSample-
\* MissingData creates no material and changes no binding and goes to its
\* next entry; get_selected_dominant_colors leaves the surface out of its
\* result and keeps the surfaces it can read, so that the assignment after
\* it never touches it; sample_using_dominant_color returns no sample.
C15_UnreadableLeftAlone ==
    /\ [](\A path \in DOMAIN disk, resample \in Resamples :
            (path_exists(disk, path) /\ ~can_decode(disk, load_truncated, path))
               => get_dominant_color(disk, load_truncated, path, resample) = None)
    /\ [][MissingUnreadable =>
             /\ scene' = scene
             /\ materials' = materials
             /\ shader_cache' = shader_cache
             /\ GoesOn]_vars
    /\ [][(job.op = "idle" /\ job'.op = "apply") =>
             /\ scene' = scene
             /\ materials' = materials
             /\ \A k \in 1..Len(job'.results) :
                   ~Unreadable(scene[job'.results[k].obj])
             /\ \A i \in job'.selection :
                   (/\ scene[i].shader # None
                    /\ scene[i].shader.info # None
                    /\ \/ scene[i].shader.info.type = "color"
                       \/ /\ path_exists(disk, scene[i].shader.info.value)
                          /\ can_decode(disk, load_truncated,
                                        scene[i].shader.info.value))
                   => \E k \in 1..Len(job'.results) : job'.results[k].obj = i]_vars
    /\ [][job.op = "apply" =>
             /\ \A i \in 1..Len(scene) :
                   Unreadable(scene[i]) => scene'[i] = scene[i]
             /\ \A m \in materials' \ materials :
                   \E k \in job.todo : m.name = color_key(job.results[k].rgb)]_vars
    /\ [][SampledUnreadable =>
             /\ call'.results = << >>
             /\ scene' = scene
             /\ materials' = materials]_vars

\* C15 witness: ProcessAndSampleMissingData met a surface whose texture
\* could not be read, created nothing for it, and bound the next surface to
\* a placeholder of its material's colour.
C15_Witness ==
    /\ job.op = "assigned" /\ job.was = "missing"
    /\ job.events = <<"no color", "bound">>
    /\ \E k \in 1..Len(log) : log[k] = "Failed to get dominant color"
    /\ Cardinality(materials) = 1
    /\ Unreadable(scene[1])

(***************************************************************************)
(* Claims about the recovery of images that do not decode.                 *)
(***************************************************************************)

\* The last piece of the path is one of the JPEG extensions, in either case.
JpegExtension(p) ==
    /\ "lit" \in DOMAIN p[Len(p)]
    /\ p[Len(p)].lit \in {".jpg", ".jpeg", ".jfif", ".JPG", ".JPEG", ".JFIF"}

\* How many repairs the call attempted on the path p.
Attempts(c, p) == Cardinality({i \in 1..Len(c.repaired) : c.repaired[i] = p})

\* The paths the call opened, and the place of each in the order of opening.
OpenedPaths(c) == {c.opened[i] : i \in 1..Len(c.opened)}
OpenedAt(c, p) == CHOOSE i \in 1..Len(c.opened) : c.opened[i] = p

\* The open of p by the call failed: the file is no image, or it is
\* truncated and PIL did not yet tolerate truncation (it does from the first
\* repair attempt of the process on).
FailedOpen(c, p) ==
    \/ c.disk_before[p].kind = "garbage"
    \/ /\ c.disk_before[p].kind = "truncated"
       /\ ~c.flag_before
       /\ \A q \in OpenedPaths(c) :
             Attempts(c, q) > 0 => OpenedAt(c, q) >= OpenedAt(c, p)

\* The samples the call took from the file at p.
SamplesFrom(c, p) ==
    {s \in SamplesOf(c) : TilePath(c.udim_template, s.tile.int) = p}

\* C21: when the open of a tile file fails in sample_uv_colors_from_udim, a
\* JPEG-family path gets exactly one repair attempt in the call, and no sample
\* when the repair fails; a path of another extension gets no repair attempt
\* and no sample.  No path is opened twice, and nothing is repaired that
\* opened.
C21_OneRepairForJpegOnly ==
    Called =>
      /\ \A p \in OpenedPaths(call) :
            /\ Cardinality({i \in 1..Len(call.opened) : call.opened[i] = p}) = 1
            /\ FailedOpen(call, p) =>
                  IF JpegExtension(p)
                  THEN /\ Attempts(call, p) = 1
                       /\ call.disk_before[p].kind = "garbage" =>
                             SamplesFrom(call, p) = {}
                  ELSE /\ Attempts(call, p) = 0
                       /\ SamplesFrom(call, p) = {}
            /\ ~FailedOpen(call, p) => Attempts(call, p) = 0
      /\ \A i \in 1..Len(call.repaired) :
            call.repaired[i] \in OpenedPaths(call)

\* C21 witness: two coordinates on the tile of a JPEG file that is no image;
\* one repair was attempted and failed, and the call returned no sample.
C21_Witness ==
    /\ call.status = "returned"
    /\ Len(scene[1].uvs) = 2
    /\ scene[1].uvs[1] = UV(23, 10, 17, 10)
    /\ scene[1].uvs[2] = UV(23, 10, 17, 10)
    /\ call.udim_template = TplMix
    /\ call.repaired = <<TilePath(TplMix, 1013)>>
    /\ call.results = << >>

\* C22: after sample_uv_colors_from_udim has returned or raised, the current
\* UV set of the surface is the one that was current before the call; a call
\* for a UV set name the surface does not have returns no samples and at no
\* point makes another UV set current.
C22_CurrentUVSetRestored ==
    Called =>
      /\ scene[1].current = call.before
      /\ (\A k \in 1..Len(scene[1].uv_sets) :
              scene[1].uv_sets[k] # call.uv_set_name) =>
            /\ call.status = "returned"
            /\ call.results = << >>
            /\ call.during = call.before

\* C22 witness: a call that had made uvSet2 current raised in the loop, and
\* map1 is current again.
C22_Witness ==
    /\ call.status = "raised"
    /\ call.uv_set_name = "uvSet2"
    /\ call.during = "uvSet2"
    /\ call.before = "map1"
    /\ scene[1].current = "map1"

\* The tile file of the coordinate uv in the call c.
PathOf(c, uv) == TilePath(c.udim_template, TileOf(uv))

\* The image of the file at p is available to the call: the file decodes as
\* it is, or it is a truncated JPEG, which the repair recovers.
Available(c, p) ==
    \/ c.disk_before[p].kind = "ok"
    \/ /\ c.disk_before[p].kind = "truncated"
       /\ c.flag_before \/ JpegExtension(p)

\* The components of the shape whose coordinates lie on an available tile.
AvailableUVs(c) ==
    {i \in 1..Len(scene[1].uvs) :
        /\ scene[1].uvs[i] # None
        /\ Available(c, PathOf(c, scene[1].uvs[i]))}

\* C27: a call of sample_uv_colors_from_udim that returns has taken exactly
\* one sample for every UV coordinate whose tile image is available, opened
\* directly or recovered by the JPEG repair, the coordinate that set off the
\* repair included.
C27_EveryAvailableUVSampled ==
    (call.status = "returned" /\ call.uv_set_name # "absent") =>
      /\ Len(call.results) = Cardinality(AvailableUVs(call))
      /\ \A i \in AvailableUVs(call) :
            \E k \in 1..Len(call.results) :
               call.results[k].dict.uv = scene[1].uvs[i]

(***************************************************************************)
(* Claims about what the batch pass records.                               *)
(***************************************************************************)

\* The pass is about to sample a UV set of a surface whose texture path holds
\* <f>, and no file on disk matches the pattern.
NoFrameFileMatches ==
    /\ pc = "Sampling"
    /\ scene[pass.idx].shader.info.type = "file"
    /\ \E k \in 1..Len(scene[pass.idx].shader.info.value) :
          scene[pass.idx].shader.info.value[k] = Lit("<f>")
    /\ \A n \in Tiles :
          ~path_exists(disk, TilePath(scene[pass.idx].shader.info.value, n))

\* C23: when the directory scan of sample_using_dominant_color finds no file
\* for a <f> texture path, the path is in failed_textures afterwards, the UV
\* set is recorded without any sample, and the pass goes on.
C23_NoFrameFileIsRecorded ==
    [][NoFrameFileMatches =>
          /\ scene[pass.idx].shader.info.value \in failed_textures'
          /\ pc' \in {"Sampling", "Recording"}
          /\ Len(pass'.per_uv_samples) = Len(pass.per_uv_samples) + 1
          /\ pass'.per_uv_samples[Len(pass'.per_uv_samples)].dict.samples
                = PyList(<< >>)]_vars

\* The surface is passed over by the scan: its namespace is filtered out, it
\* has no material, its material has neither texture nor colour, its file
\* node has no path, or it has no UV set.
Skipped(shape) ==
    \/ namespace_skips(shape.name, pass.namespace)
    \/ shape.shader = None
    \/ shape.shader.info = None
    \/ shape.shader.info.type = "file" /\ shape.shader.info.value = << >>
    \/ shape.uv_sets = << >>

\* The surfaces of the scene that are not passed over, in scan order.
RECURSIVE Scanned(_)
Scanned(i) ==
    IF i > Len(scene) THEN << >>
    ELSE (IF Skipped(scene[i]) THEN << >> ELSE <<i>>) \o Scanned(i + 1)

\* The samples a sampler produced for the UV set k of the surface i.
ProducedFor(i, k) ==
    LET at == CHOOSE j \in 1..Len(pass.produced) :
                  pass.produced[j].idx = i /\ pass.produced[j].uv_i = k
    IN pass.produced[at].uv_colors

\* The first min(n, count) of n samples.
FirstOf(samples, count) ==
    [j \in 1..(IF Len(samples) < count THEN Len(samples) ELSE count) |-> samples[j]]

\* The record of the surface i: per UV set, in order, the first samples.
RecordOf(i) ==
    PyDict([object |-> PyStr(scene[i].name),
            uv_sets |-> PyList([k \in 1..Len(scene[i].uv_sets) |->
                PyDict([uv_set |-> PyStr(scene[i].uv_sets[k]),
                        samples |-> PyList(FirstOf(ProducedFor(i, k),
                                                   pass.sample_count))])])])

\* C24: at Done the document of the pass holds, in scan order, one record
\* for each surface that was not passed over and none for the others; a
\* record holds, per UV set and in UV-set order, the first
\* min(n, sample_count) of the n samples produced for the set, in the order
\* of the UV components.
C24_DocumentAggregatesRecords ==
    pc = "Done" =>
      /\ \A j \in 1..Len(pass.produced) :
            Cardinality({l \in 1..Len(pass.produced) :
                            /\ pass.produced[l].idx = pass.produced[j].idx
                            /\ pass.produced[l].uv_i = pass.produced[j].uv_i}) = 1
      /\ DOMAIN json_load(files.sample.text).dict = {"meshes"}
      /\ SameMeshes([r \in 1..Len(Scanned(1)) |-> RecordOf(Scanned(1)[r])],
                    json_load(files.sample.text).dict.meshes.list)

\* C24 witness: a pass with sample_count 1 is Done; of the two surfaces it
\* recorded only the second, keeping one of its two samples.
C24_Witness ==
    /\ pc = "Done"
    /\ pass.sample_count = 1
    /\ Len(scene) = 2
    /\ Skipped(scene[1])
    /\ Len(pass.matched_meshes) = 1
    /\ \E j \in 1..Len(pass.produced) :
          /\ Len(pass.produced[j].uv_colors) = 2
          /\ pass.produced[j].idx = 2

(***************************************************************************)
(* Claims about repeated lookups on one assigner.                          *)
(***************************************************************************)

\* C25: once get_or_create_shader_for_color(c, t) has returned a material,
\* every later call with the same c and t on the same assigner returns that
\* material, whatever was requested in between.
C25_LookupsAreStable ==
    [][req'.color \in DOMAIN job.answers =>
          ret' = job.answers[req'.color]]_vars

\* Two colours differ by more than t on at least one channel.
FartherThan(c1, c2, t) ==
    \E ch \in 1..3 :
        (IF c1[ch] >= c2[ch] THEN c1[ch] - c2[ch] ELSE c2[ch] - c1[ch]) > t

\* C26: after any sequence of calls with one tolerance t >= 0, any two
\* distinct keys of the cache differ by more than t on at least one channel,
\* and as many materials have been created as the cache has entries.
C26_KeysApartAndCounted ==
    /\ \A i, j \in 1..Len(shader_cache) :
          i # j => /\ shader_cache[i].color # shader_cache[j].color
                   /\ FartherThan(shader_cache[i].color, shader_cache[j].color,
                                  req.tolerance)
    /\ Cardinality(materials) = Len(shader_cache)

\* C26 witness: with the default tolerance the cache holds two keys, after a
\* request that a key within tolerance answered and a repeated request.
C26_Witness ==
    /\ req.tolerance = DefaultTol
    /\ Len(shader_cache) = 2
    /\ Cardinality(DOMAIN job.answers) >= 3
    /\ \E c \in DOMAIN job.answers : ~HasKey(shader_cache, c)

(***************************************************************************)
(* Claims about fix_and_reload_jpeg.                                       *)
(***************************************************************************)

\* C28: on return from fix_and_reload_jpeg, whether it succeeded or failed at
\* any step, a file exists at the original path; and after a failed repair
\* the file at the original path has its original content and no file
\* path + "_fixed.jpg" is left.
C28_RepairNeverLosesTexture ==
    call.status = "repaired" =>
      /\ call.path \in DOMAIN disk
      /\ disk[call.path].kind # "missing"
      /\ call.img = None =>
            /\ disk[call.path] = call.disk_before[call.path]
            /\ \A p \in DOMAIN disk \ DOMAIN call.disk_before :
                  disk[p].kind = "missing"

(***************************************************************************)
(* Claims about the legacy document over passes, assignments and restores. *)
(***************************************************************************)

\* C29: whenever a pass on the asset is Done, whatever passes, assignments
\* and restores came before, OlderShader.json describes the bindings the
\* surfaces had before any placeholder was assigned.
C29_LegacyKeepsOriginalBindings ==
    pc = "Done" => files.legacy = LegacyOf(pass.start.scene)

(***************************************************************************)
(* Claims about the cleanup after a restore.                               *)
(***************************************************************************)

\* The original materials a legacy document lists.
RecordedIn(f) ==
    {k.node : k \in {x \in DOMAIN json_load(f.text).dict.shader_connections.dict :
                        "node" \in DOMAIN x}}

\* C30: the cleanup at the end of re_assigner_old deletes only shading
\* groups without members, with their materials, and none that the legacy
\* document of another asset, not restored yet, lists.
C30_CleanupSparesOtherAssets ==
    [][(job.op = "restore" /\ job.k > Len(job.order)) =>
          /\ \A m \in DOMAIN shaders \ DOMAIN shaders' :
                \A i \in 1..Len(scene) :
                   ~(/\ scene[i].shader # None
                     /\ "placeholder" \notin DOMAIN scene[i].shader
                     /\ scene[i].shader.name = m)
          /\ \A m \in materials \ materials' :
                \A i \in 1..Len(scene) :
                   ~(/\ scene[i].shader # None
                     /\ "placeholder" \in DOMAIN scene[i].shader
                     /\ scene[i].shader.name = m)
          /\ files.turn = 1 =>
                \A m \in RecordedIn(files.other) :
                   m \in DOMAIN shaders => m \in DOMAIN shaders']_vars

====
